---- MODULE Spec2Model ----
(***************************************************************************)
(* Model of the parallel image generator of content_generator/tools.py:    *)
(* generate_all_images_parallel and its inner coroutine                    *)
(* generate_single_image, run by one asyncio event loop.                   *)
(*                                                                         *)
(* Time is the event loop's clock in seconds, counted from the moment the  *)
(* tasks are launched.  It advances from one timer/completion event to the *)
(* next; steps that need no waiting (a task's first step, taking a free    *)
(* semaphore slot) happen before the clock moves.                          *)
(***************************************************************************)
EXTENDS Integers, Sequences, FiniteSets, TLC

\* ---------------------------------------------------------------- bounds
\* Largest number of prompts in the list read from the state.
MaxN == 4
\* Duration in seconds of an image API call that answers in time.
FastCall == 1
\* Largest number of attempts, over the whole batch, that the image service
\* or the storage lets down (an exception, a response without image, an
\* image that cannot be written; no answer in time, which counts twice).
MaxFaults == 4
\* Number of different prompt texts and of different non-empty values of
\* the STYLE setting a request text is built from.
MaxPrompts == 4
MaxStyles == 2
\* Largest number of posts in state['filtered_posts'] and largest value of
\* the BATCH_SIZE setting.
MaxPosts == 2
MaxBatch == 2
\* Largest number of calls of select_current_post and clear_post_state made
\* on one session state, and number of prompts in state['image_prompts'].
MaxCalls == 5
MaxSlides == 2
\* Largest number of events the runner yields in one run of the job.
MaxEvents == 5
\* Number of job ids, number of threads that call the job database, and
\* largest value of the MAX_CONCURRENT_JOBS setting.
MaxJobs == 2
MaxThreads == 2
MaxLimit == 1

\* ------------------------------------------------------ program constants
MAX_CONCURRENT_IMAGE_REQUESTS == 3
RETRY_ATTEMPTS == 3
RETRY_DELAY == 2
IMAGE_GENERATION_TIMEOUT == 60
\* timeout = num_batches * 20 + 30
BatchSlice == 20
BatchBuffer == 30
\* max_iterations of batch_processor when BATCH_SIZE is not positive
UnlimitedIterations == 100

VARIABLES
    image_prompts,  \* the value read from state['image_prompts'] after parsing
    phase,          \* position of generate_all_images_parallel
    now,            \* event loop time since the tasks were launched
    pc,             \* pc[i]: position of task generate_single_image(i, ..)
    attempt,        \* attempt[i]: loop variable of the retry loop (0-based)
    due,            \* due[i]: time the awaited call or sleep of task i ends
    hang,           \* hang[i]: the awaited API call does not answer in time
    orphans,        \* orphans[i]: abandoned to_thread calls still running
    started,        \* started[i]: number of generate_content calls started
    timeouts,       \* timeouts[i]: number of attempts ended by wait_for
    lastErr,        \* lastErr[i]: exception of the latest failed attempt
    slept,          \* slept[i]: the backoff delays task i has been given
    result,         \* result[i]: what gather holds for task i
    ret,            \* return value of generate_all_images_parallel
    faults,         \* attempts let down by the service or the storage so far
    firstCall,      \* firstCall[i]: time task i started its first API call
    callStart,      \* callStart[i]: start_time of the call being awaited
    failures,       \* failures[i]: attempts of task i that raised
    semaphore       \* free slots of the asyncio.Semaphore

\* The variables of the parallel image generator.
genVars == <<image_prompts, phase, now, pc, attempt, due, hang, orphans,
             started, timeouts, lastErr, slept, result, ret, faults,
             firstCall, callStart, failures, semaphore>>

\* Building the text of one image request.
VARIABLES
    prompt_text,       \* the prompt of the image (which one of the inputs)
    reference_images,  \* keys of state['generation_reference_images']
    STYLE,             \* Config.STYLE (0: the empty string)
    builder,           \* the function that built full_text
    full_text          \* the text sent to the image model, as its pieces

textVars == <<prompt_text, reference_images, STYLE, builder, full_text>>

\* The per-post pipeline and the loop around it.
VARIABLES
    filtered_posts,      \* state['filtered_posts']
    BATCH_SIZE,          \* Config.BATCH_SIZE
    exit_at_once,        \* the loop agent returns on the escalate event itself
    del_works,           \* "del state[key]" deletes the key (it raises otherwise)
    current_post_index,  \* state['current_post_index']
    current_post,        \* state['current_post'] (0: key absent)
    loop,                \* position of batch_processor
    times_looped,        \* passes of the pipeline completed by the loop
    passes,              \* passes of the pipeline begun by the loop
    should_exit,         \* an event of the current pass carried escalate
    stage,               \* position in the pipeline of the sub-agent to run next
    running,             \* sub-agents started and not yet finished
    ran,                 \* sub-agents started in the current pass, in order
    select_status,       \* status select_current_post returned in this pass
    image_status,        \* outcome of the image loop in this pass
    exit_cause,          \* what ended the loop
    reports              \* the report files save_post_metadata has written

pipeVars == <<filtered_posts, BATCH_SIZE, exit_at_once, del_works,
              current_post_index, current_post, loop, times_looped, passes,
              should_exit, stage, running, ran, select_status, image_status,
              exit_cause, reports>>

\* The session state as the post tools see it, called in any order.  The
\* values of 'filtered_posts', 'current_post_index' and 'current_post' are
\* the variables of these names above.
VARIABLES
    state_keys,              \* the keys present in tool_context.state
    images_generated_count,  \* state['temp:images_generated_count']
    escalate,                \* tool_context.actions.escalate after the last call
    returned,                \* "status" of the dictionary the last call returned
    last_call,               \* the tool or agent that acted last
    ncalls,                  \* calls of the two post tools so far
    selected,                \* the posts stored in 'current_post', in order
    handed_out               \* positions of the prompts handed out since the last clear

toolVars == <<state_keys, images_generated_count, escalate, returned,
              last_call, ncalls, selected, handed_out>>

\* One run of the generator job, from main() to the exit of the process.
VARIABLES
    run_pc,          \* position of the job in main / run_content_generator
    input_mode,      \* os.getenv('INPUT_MODE', 'sheet')
    root_agent,      \* the agent handed to the Runner
    event_count,     \* events received from runner.run_async
    images_saved,    \* images the run has generated and saved
    final_response,  \* an event was a final response
    result_status,   \* result['status'] of run_content_generator
    exit_status      \* argument of sys.exit (-1: the process has not exited)

runVars == <<run_pc, input_mode, root_agent, event_count, images_saved,
             final_response, result_status, exit_status>>

\* The job stores of the web UI: the table of job_db.py, used from several
\* threads with one connection each, and the jobs file of app.py, used by
\* the request handlers and the background threads of the jobs.
VARIABLES
    MAX_CONCURRENT_JOBS,  \* JobDB.MAX_CONCURRENT_JOBS
    jobs_table,           \* the committed rows of table jobs, by job id
    db_lock,              \* the thread whose connection holds the write lock (0: none)
    db_pc,                \* position of each thread in the call it is making
    db_job,               \* job_id argument of each thread's call
    db_count,             \* the count each thread's call has read
    db_result,            \* what create_job did, if it is the call that ended last
    db_stale,             \* what cleanup_stale_jobs returned, if it ended last (else -1)
    table_before,         \* the rows of table jobs when the server started
    jobs_file,            \* the content of jobs.json, by job id
    file_before,          \* the content of jobs.json when the server started
    file_cleaned,         \* the module-level cleanup of app.py has run
    ui_pc,                \* position of the request and of the thread of each job
    local_jobs            \* the dictionary "jobs" each of them has loaded

dbVars == <<MAX_CONCURRENT_JOBS, jobs_table, db_lock, db_pc, db_job, db_count,
            db_result, db_stale, table_before>>

uiVars == <<jobs_file, file_before, file_cleaned, ui_pc, local_jobs>>

webVars == <<dbVars, uiVars>>

\* The prompt formatter (prompt_formatter.py) and the two state keys it
\* reads.
VARIABLES
    creative_brief,       \* state['creative_brief']
    state_image_prompts,  \* state['image_prompts']
    prompts_before,       \* state['image_prompts'] when the call was made
    format_result         \* status returned by format_image_prompts

fmtVars == <<creative_brief, state_image_prompts, prompts_before,
             format_result>>

\* The sheet reader (fetch_google_sheet_data) and the state keys it writes.
VARIABLES
    sheet,               \* the sheet the request is answered from
    posts_state,         \* state['filtered_posts'], state['total_posts_found']
    posts_state_before,  \* the two keys when the call was made
    fetch_status         \* status returned by fetch_google_sheet_data

fetchVars == <<sheet, posts_state, posts_state_before, fetch_status>>

vars == <<genVars, textVars, pipeVars, toolVars, runVars, webVars, fmtVars,
         fetchVars>>

\* What the steps of one part leave alone: the variables of the others.
notGen == <<textVars, pipeVars, toolVars, runVars, webVars, fmtVars, fetchVars>>
notText == <<genVars, pipeVars, toolVars, runVars, webVars, fmtVars, fetchVars>>
notPipe == <<genVars, textVars, toolVars, runVars, webVars, fmtVars, fetchVars>>
notTools == <<genVars, textVars, runVars, webVars, fmtVars, fetchVars>>
notRun == <<genVars, textVars, pipeVars, toolVars, webVars, fmtVars, fetchVars>>
notDb == <<genVars, textVars, pipeVars, toolVars, runVars, uiVars, fmtVars,
    fetchVars>>
notUi == <<genVars, textVars, pipeVars, toolVars, runVars, dbVars, fmtVars,
    fetchVars>>
notFmt == <<genVars, textVars, pipeVars, toolVars, runVars, webVars, fetchVars>>
notFetch == <<genVars, textVars, pipeVars, toolVars, runVars, webVars, fmtVars>>

\* A value of a state key that holds JSON: missing or empty ("absent"), a
\* string ("text", possibly inside a ``` fence) or an object that is not a
\* string ("parsed"); shape says what the JSON is and items are the
\* entries of a list.
StateValue(form, fenced, shape, items) ==
    [form |-> form, fenced |-> fenced, shape |-> shape, items |-> items]

NoValue == StateValue("absent", FALSE, "none", << >>)

\* The two keys before any post was fetched: state.get gives [] and 0.
NoPosts == [filtered_posts |-> << >>, total_posts_found |-> 0]

\* The formatter is not being run.
FormatIdle ==
    /\ creative_brief = [form |-> "absent", shape |-> "none",
                         has_style_reference |-> FALSE, art_style |-> 0]
    /\ state_image_prompts = NoValue
    /\ prompts_before = NoValue
    /\ format_result = "none"

\* No sheet has been fetched.
FetchIdle ==
    /\ sheet = [has_virality |-> TRUE, has_engagement |-> TRUE, rows |-> << >>]
    /\ posts_state = NoPosts
    /\ posts_state_before = NoPosts
    /\ fetch_status = "none"

\* No request text is being built.
TextIdle ==
    /\ prompt_text = 1
    /\ reference_images = {}
    /\ STYLE = 0
    /\ builder = "none"
    /\ full_text = << >>

\* No pipeline is being run.
PipeIdle ==
    /\ filtered_posts = << >>
    /\ BATCH_SIZE = 0
    /\ exit_at_once = FALSE
    /\ del_works = FALSE
    /\ current_post_index = 0
    /\ current_post = 0
    /\ loop = "idle"
    /\ times_looped = 0
    /\ passes = 0
    /\ should_exit = FALSE
    /\ stage = 0
    /\ running = {}
    /\ ran = << >>
    /\ select_status = "none"
    /\ image_status = "none"
    /\ exit_cause = "none"
    /\ reports = {}

\* ------------------------------------------------------------- inputs
\* One entry of the prompt list: a JSON object (dict) or anything else
\* (string, number, null), which has no .get method.
Entries == {"dict", "malformed"}

RECURSIVE SeqsUpTo(_, _)
SeqsUpTo(S, n) ==
    IF n = 0 THEN {<< >>}
    ELSE LET shorter == SeqsUpTo(S, n - 1)
         IN  shorter \cup {Append(s, e) : s \in {t \in shorter : Len(t) = n - 1}, e \in S}

\* Values state['image_prompts'] can hold once parsed: None when no JSON
\* could be extracted, a JSON object, or a list.
PromptInputs ==
    {[kind |-> "unparsable", items |-> << >>], [kind |-> "object", items |-> << >>]}
      \cup {[kind |-> "list", items |-> s] : s \in SeqsUpTo(Entries, MaxN)}

N == Len(image_prompts.items)
Tasks == 0 .. (N - 1)

\* ------------------------------------------------------------- helpers
RECURSIVE Pow2(_)
Pow2(n) == IF n = 0 THEN 1 ELSE 2 * Pow2(n - 1)

\* math.ceil(a / b) for positive b
CeilDiv(a, b) == (a + b - 1) \div b

\* num_batches * 20 + 30
BatchTimeoutSecs(n) ==
    CeilDiv(n, MAX_CONCURRENT_IMAGE_REQUESTS) * BatchSlice + BatchBuffer

\* A backoff that does not grow (the fixed RETRY_DELAY wait).
BackoffDelayFixed(a) == RETRY_DELAY + 0 * a

\* delay = base_delay * (2 ** attempt)
BackoffDelay(a) == RETRY_DELAY * Pow2(a)

\* A retry loop that runs one iteration too many.
IsLastAttemptOffByOne(a) == ~(a < RETRY_ATTEMPTS)

\* range(max_retries): the attempt numbers of the retry loop
IsLastAttempt(a) == ~(a < RETRY_ATTEMPTS - 1)

\* asyncio.Semaphore: slots held by tasks inside "async with semaphore"
SlotsHeld == Cardinality({i \in Tasks : pc[i] = "call"})
SemaphoreLocked == semaphore = 0

\* Leaving the "async with" block without giving the slot back.
SemaphoreReleaseNone(value) == value

\* Leaving the "async with" block, by return or by exception.
SemaphoreRelease(value) == value + 1

RECURSIVE ReleaseTimes(_, _)
\* n tasks leave their "async with" block.
ReleaseTimes(value, n) ==
    IF n = 0 THEN value ELSE ReleaseTimes(SemaphoreRelease(value), n - 1)

\* An API call awaited without wait_for: a slow answer is waited for.
CallDueNoTimeout(t, hangs) ==
    t + (IF hangs THEN IMAGE_GENERATION_TIMEOUT + FastCall ELSE FastCall)

\* wait_for(..., timeout=IMAGE_GENERATION_TIMEOUT) around to_thread
CallDue(t, hangs) == t + (IF hangs THEN IMAGE_GENERATION_TIMEOUT ELSE FastCall)

\* save_image_local: the path names the slide number; "" (here 0) on error
SaveImageLocal(idx, ok) == IF ok THEN idx + 1 ELSE 0

SuccessResult(idx, path) == [index |-> idx, status |-> "success", path |-> path]
ErrorResult(idx, err) == [index |-> idx, status |-> "error", error |-> err]
ExceptionResult(exc) == [exception |-> exc]
NoResult == [pending |-> TRUE]

\* isinstance(r, dict)
IsDict(r) == "status" \in DOMAIN r

NoRet == [status |-> "pending"]

\* Outcomes of an API call that answered in time.
Answers == {"image", "image_unsaved", "api_error", "no_candidates",
            "no_content_parts", "no_image_data"}
Errors == (Answers \ {"image", "image_unsaved"}) \cup {"timeout"}

TypeOK ==
    /\ image_prompts \in PromptInputs
    /\ phase \in {"entry", "running", "returned", "raised"}
    /\ now \in Nat
    /\ pc \in [Tasks -> {"new", "sem", "call", "sleep", "done", "raised", "cancelled"}]
    /\ attempt \in [Tasks -> 0 .. (RETRY_ATTEMPTS - 1)]
    /\ due \in [Tasks -> Nat]
    /\ hang \in [Tasks -> BOOLEAN]
    /\ orphans \in [Tasks -> Nat]
    /\ started \in [Tasks -> Nat]
    /\ timeouts \in [Tasks -> Nat]
    /\ lastErr \in [Tasks -> Errors \cup {"none"}]
    /\ slept \in [Tasks -> Seq(Nat)]
    /\ faults \in 0 .. MaxFaults
    /\ firstCall \in [Tasks -> Nat]
    /\ callStart \in [Tasks -> Nat]
    /\ failures \in [Tasks -> 0 .. RETRY_ATTEMPTS]
    /\ semaphore \in 0 .. MAX_CONCURRENT_IMAGE_REQUESTS

\* The generator before its first step, whatever the prompts.
GenStart ==
    /\ phase = "entry"
    /\ now = 0
    /\ pc = [i \in Tasks |-> "new"]
    /\ attempt = [i \in Tasks |-> 0]
    /\ due = [i \in Tasks |-> 0]
    /\ hang = [i \in Tasks |-> FALSE]
    /\ orphans = [i \in Tasks |-> 0]
    /\ started = [i \in Tasks |-> 0]
    /\ timeouts = [i \in Tasks |-> 0]
    /\ lastErr = [i \in Tasks |-> "none"]
    /\ slept = [i \in Tasks |-> << >>]
    /\ result = [i \in Tasks |-> NoResult]
    /\ ret = NoRet
    /\ faults = 0
    /\ firstCall = [i \in Tasks |-> 0]
    /\ callStart = [i \in Tasks |-> 0]
    /\ failures = [i \in Tasks |-> 0]
    /\ semaphore = MAX_CONCURRENT_IMAGE_REQUESTS

\* The generator is not being run.
\* No tool is being called on a session state of its own.
ToolsIdle ==
    /\ state_keys = {}
    /\ images_generated_count = 0
    /\ escalate = FALSE
    /\ returned = "none"
    /\ last_call = "none"
    /\ ncalls = 0
    /\ selected = << >>
    /\ handed_out = << >>

\* No job is running.
RunIdle ==
    /\ run_pc = "idle"
    /\ input_mode = "sheet"
    /\ root_agent = "none"
    /\ event_count = 0
    /\ images_saved = 0
    /\ final_response = FALSE
    /\ result_status = "none"
    /\ exit_status = -1

JobIds == 1 .. MaxJobs

Threads == 1 .. MaxThreads

\* A job that is not in a store, and a store without jobs.
NoJob == [status |-> "absent", error |-> ""]

NoJobs == [j \in JobIds |-> NoJob]

\* No thread uses the job table.
DbIdle ==
    /\ MAX_CONCURRENT_JOBS = 1
    /\ jobs_table = NoJobs
    /\ db_lock = 0
    /\ db_pc = [t \in Threads |-> "idle"]
    /\ db_job = [t \in Threads |-> 0]
    /\ db_count = [t \in Threads |-> 0]
    /\ db_result = "none"
    /\ db_stale = -1
    /\ table_before = NoJobs

\* No request uses the jobs file.
UiIdle ==
    /\ jobs_file = NoJobs
    /\ file_before = NoJobs
    /\ file_cleaned = FALSE
    /\ ui_pc = [j \in JobIds |-> "none"]
    /\ local_jobs = [j \in JobIds |-> NoJobs]

WebIdle == DbIdle /\ UiIdle

GenIdle ==
    /\ image_prompts = [kind |-> "list", items |-> << >>]
    /\ GenStart

Init ==
    /\ image_prompts \in PromptInputs
    /\ GenStart
    /\ TextIdle
    /\ PipeIdle
    /\ ToolsIdle
    /\ RunIdle
    /\ WebIdle
    /\ FormatIdle
    /\ FetchIdle

\* ------------------------------------------------------------ actions
Deadline == BatchTimeoutSecs(N)

Finished(i) == pc[i] \in {"done", "raised"}

\* An entry check that raises for an empty prompt list instead of
\* returning the error dict.
EnterRaising ==
    /\ phase = "entry"
    /\ IF image_prompts.kind = "unparsable"
       THEN /\ phase' = "returned"
            /\ ret' = [status |-> "error", error |-> "parse_failed"]
       ELSE IF image_prompts.kind = "object"
       THEN /\ phase' = "returned"
            /\ ret' = [status |-> "error", error |-> "exception",
                       total |-> 0, successful |-> 0]
       ELSE IF N = 0
       THEN /\ phase' = "raised"
            /\ ret' = ret
       ELSE /\ phase' = "running"
            /\ ret' = ret
    /\ UNCHANGED <<image_prompts, now, pc, attempt, due, hang, orphans,
                   started, timeouts, lastErr, slept, result, faults,
                   firstCall, callStart, failures, semaphore>>
    /\ UNCHANGED notGen

\* generate_all_images_parallel up to the launch of the tasks: the early
\* returns, and the outer "except Exception" for a value that cannot be
\* indexed by position.
Enter ==
    /\ phase = "entry"
    /\ IF image_prompts.kind = "unparsable"
       THEN /\ phase' = "returned"
            /\ ret' = [status |-> "error", error |-> "parse_failed"]
       ELSE IF image_prompts.kind = "object"
       THEN /\ phase' = "returned"
            /\ ret' = [status |-> "error", error |-> "exception",
                       total |-> 0, successful |-> 0]
       ELSE IF N = 0
       THEN /\ phase' = "returned"
            /\ ret' = [status |-> "error", error |-> "no_prompts"]
       ELSE /\ phase' = "running"
            /\ ret' = ret
    /\ UNCHANGED <<image_prompts, now, pc, attempt, due, hang, orphans,
                   started, timeouts, lastErr, slept, result, faults,
                   firstCall, callStart, failures, semaphore>>
    /\ UNCHANGED notGen

\* The top of iteration a of the retry loop down to the API call:
\* "async with semaphore" takes a slot at once when one is free and the
\* call is handed to a thread; otherwise the task waits for a slot.
BeginAttempt(i, a, hangs) ==
    /\ attempt' = [attempt EXCEPT ![i] = a]
    /\ IF SemaphoreLocked
       THEN /\ ~hangs
            /\ pc' = [pc EXCEPT ![i] = "sem"]
            /\ due' = [due EXCEPT ![i] = 0]
            /\ UNCHANGED <<hang, started, faults, firstCall, callStart,
                           semaphore>>
       ELSE /\ hangs => faults + 2 <= MaxFaults
            /\ semaphore' = semaphore - 1
            /\ pc' = [pc EXCEPT ![i] = "call"]
            /\ due' = [due EXCEPT ![i] = CallDue(now, hangs)]
            /\ hang' = [hang EXCEPT ![i] = hangs]
            /\ started' = [started EXCEPT ![i] = @ + 1]
            /\ faults' = IF hangs THEN faults + 2 ELSE faults
            /\ callStart' = [callStart EXCEPT ![i] = now]
            /\ firstCall' = IF started[i] = 0
                            THEN [firstCall EXCEPT ![i] = now]
                            ELSE firstCall

\* First step of task i; gather starts the tasks in list order.
\* prompt_data.get(...) is outside the try: an entry that is not a dict
\* raises AttributeError out of the coroutine.
Start(i) ==
    /\ phase = "running"
    /\ pc[i] = "new"
    /\ \A j \in Tasks : j < i => pc[j] # "new"
    /\ IF image_prompts.items[i + 1] = "malformed"
       THEN /\ pc' = [pc EXCEPT ![i] = "raised"]
            /\ result' = [result EXCEPT ![i] = ExceptionResult("AttributeError")]
            /\ UNCHANGED <<attempt, due, hang, started, faults, firstCall,
                           callStart, semaphore>>
       ELSE /\ \E hangs \in BOOLEAN : BeginAttempt(i, 0, hangs)
            /\ UNCHANGED result
    /\ UNCHANGED <<image_prompts, phase, now, orphans, timeouts, lastErr,
                   slept, ret, failures>>
    /\ UNCHANGED notGen

\* A waiting task is given a released slot and starts its API call.
Acquire(i) ==
    /\ phase = "running"
    /\ pc[i] = "sem"
    /\ ~SemaphoreLocked
    /\ \E hangs \in BOOLEAN : BeginAttempt(i, attempt[i], hangs)
    /\ UNCHANGED <<image_prompts, phase, now, orphans, timeouts, lastErr,
                   slept, result, ret, failures>>
    /\ UNCHANGED notGen

\* An except clause that gives up at once on a timeout instead of retrying.
FailNoRetryOnTimeout(i, e) ==
    /\ lastErr' = [lastErr EXCEPT ![i] = e]
    /\ failures' = [failures EXCEPT ![i] = @ + 1]
    /\ hang' = [hang EXCEPT ![i] = FALSE]
    /\ callStart' = [callStart EXCEPT ![i] = 0]
    /\ IF ~IsLastAttempt(attempt[i]) /\ e # "timeout"
       THEN /\ pc' = [pc EXCEPT ![i] = "sleep"]
            /\ due' = [due EXCEPT ![i] = now + BackoffDelay(attempt[i])]
            /\ slept' = [slept EXCEPT ![i] = Append(@, BackoffDelay(attempt[i]))]
            /\ UNCHANGED result
       ELSE /\ pc' = [pc EXCEPT ![i] = "done"]
            /\ due' = [due EXCEPT ![i] = 0]
            /\ result' = [result EXCEPT ![i] = ErrorResult(i, e)]
            /\ UNCHANGED slept

\* "except Exception as e" of the retry loop for the exception e.
Fail(i, e) ==
    /\ lastErr' = [lastErr EXCEPT ![i] = e]
    /\ failures' = [failures EXCEPT ![i] = @ + 1]
    /\ hang' = [hang EXCEPT ![i] = FALSE]
    /\ callStart' = [callStart EXCEPT ![i] = 0]
    /\ IF ~IsLastAttempt(attempt[i])
       THEN /\ pc' = [pc EXCEPT ![i] = "sleep"]
            /\ due' = [due EXCEPT ![i] = now + BackoffDelay(attempt[i])]
            /\ slept' = [slept EXCEPT ![i] = Append(@, BackoffDelay(attempt[i]))]
            /\ UNCHANGED result
       ELSE /\ pc' = [pc EXCEPT ![i] = "done"]
            /\ due' = [due EXCEPT ![i] = 0]
            /\ result' = [result EXCEPT ![i] = ErrorResult(i, e)]
            /\ UNCHANGED slept

\* The API call of task i answers within the timeout; the slot is released
\* and the response is examined.
CallReturn(i) ==
    /\ phase = "running"
    /\ pc[i] = "call"
    /\ ~hang[i]
    /\ due[i] = now
    /\ semaphore' = SemaphoreRelease(semaphore)
    /\ \E o \in Answers :
         /\ o # "image" => faults < MaxFaults
         /\ faults' = IF o # "image" THEN faults + 1 ELSE faults
         /\ IF o \in {"image", "image_unsaved"}
            THEN /\ pc' = [pc EXCEPT ![i] = "done"]
                 /\ due' = [due EXCEPT ![i] = 0]
                 /\ result' = [result EXCEPT
                                 ![i] = SuccessResult(i, SaveImageLocal(i, o = "image"))]
                 /\ callStart' = [callStart EXCEPT ![i] = 0]
                 /\ UNCHANGED <<hang, lastErr, slept, failures>>
            ELSE Fail(i, o)
    /\ UNCHANGED <<image_prompts, phase, now, attempt, orphans, started,
                   timeouts, ret, firstCall>>
    /\ UNCHANGED notGen

\* wait_for gives up on the API call of task i: the thread keeps running
\* the call, the slot is released and the TimeoutError is re-raised as an
\* Exception inside the try.
CallTimeout(i) ==
    /\ phase = "running"
    /\ pc[i] = "call"
    /\ hang[i]
    /\ due[i] = now
    /\ orphans' = [orphans EXCEPT ![i] = @ + 1]
    /\ timeouts' = [timeouts EXCEPT ![i] = @ + 1]
    /\ semaphore' = SemaphoreRelease(semaphore)
    /\ Fail(i, "timeout")
    /\ UNCHANGED <<image_prompts, phase, now, attempt, started, ret, faults,
                   firstCall>>
    /\ UNCHANGED notGen

\* asyncio.sleep(delay) is over; the loop goes to its next iteration.
SleepDone(i) ==
    /\ phase = "running"
    /\ pc[i] = "sleep"
    /\ due[i] = now
    /\ \E hangs \in BOOLEAN : BeginAttempt(i, attempt[i] + 1, hangs)
    /\ UNCHANGED <<image_prompts, phase, now, orphans, timeouts, lastErr,
                   slept, result, ret, failures>>
    /\ UNCHANGED notGen

\* An abandoned thread finishes its API call, at a time of its own.
ThreadEnd(i) ==
    /\ orphans[i] > 0
    /\ orphans' = [orphans EXCEPT ![i] = @ - 1]
    /\ UNCHANGED <<image_prompts, phase, now, pc, attempt, due, hang,
                   started, timeouts, lastErr, slept, result, ret, faults,
                   firstCall, callStart, failures, semaphore>>
    /\ UNCHANGED notGen

\* A result list filled in the wrong order.
ResultsReversed == [k \in 1 .. N |-> result[N - k]]

\* The list gather returns: one entry per task, in task order.
Results == [k \in 1 .. N |-> result[k - 1]]

Successful(rs) ==
    {k \in DOMAIN rs : IsDict(rs[k]) /\ rs[k].status = "success"}
Failed(rs) ==
    {k \in DOMAIN rs : IsDict(rs[k]) /\ rs[k].status = "error"}

Summary(rs, n) ==
    [status |-> IF Cardinality(Successful(rs)) = n THEN "success" ELSE "partial",
     total |-> n,
     successful |-> Cardinality(Successful(rs)),
     failed |-> Cardinality(Failed(rs)),
     results |-> rs]

\* gather has every task's result or exception before the deadline.
GatherDone ==
    /\ phase = "running"
    /\ \A i \in Tasks : Finished(i)
    /\ phase' = "returned"
    /\ ret' = Summary(Results, N)
    /\ UNCHANGED <<image_prompts, now, pc, attempt, due, hang, orphans,
                   started, timeouts, lastErr, slept, result, faults,
                   firstCall, callStart, failures, semaphore>>
    /\ UNCHANGED notGen

TimeoutReturn(n) ==
    [status |-> "error", error |-> "batch_timeout", total |-> n, successful |-> 0]

\* The outer wait_for expires: gather and every unfinished task are
\* cancelled (threads running a call keep running) and the error dict is
\* returned.
BatchTimeout ==
    /\ phase = "running"
    /\ now = Deadline
    /\ \E i \in Tasks : ~Finished(i)
    /\ phase' = "returned"
    /\ ret' = TimeoutReturn(N)
    /\ pc' = [i \in Tasks |-> IF Finished(i) THEN pc[i] ELSE "cancelled"]
    /\ orphans' = [i \in Tasks |-> IF pc[i] = "call" THEN orphans[i] + 1 ELSE orphans[i]]
    /\ due' = [i \in Tasks |-> 0]
    /\ hang' = [i \in Tasks |-> FALSE]
    /\ callStart' = [i \in Tasks |-> 0]
    /\ semaphore' = ReleaseTimes(semaphore, SlotsHeld)
    /\ UNCHANGED <<image_prompts, now, attempt, started, timeouts, lastErr,
                   slept, result, faults, firstCall, failures>>
    /\ UNCHANGED notGen

\* Something can happen at the current instant.
StepReady ==
    \/ \E i \in Tasks : pc[i] = "new"
    \/ \E i \in Tasks : pc[i] = "sem" /\ ~SemaphoreLocked
    \/ \E i \in Tasks : pc[i] \in {"call", "sleep"} /\ due[i] <= now
    \/ \A i \in Tasks : Finished(i)
    \/ now >= Deadline

Min(S) == CHOOSE m \in S : \A x \in S : m <= x

NextEvent ==
    Min({due[i] : i \in {j \in Tasks : pc[j] \in {"call", "sleep"}}} \cup {Deadline})

\* The loop is idle until the next timer or completion.
Advance ==
    /\ phase = "running"
    /\ ~StepReady
    /\ now' = NextEvent
    /\ UNCHANGED <<image_prompts, phase, pc, attempt, due, hang, orphans,
                   started, timeouts, lastErr, slept, result, ret, faults,
                   firstCall, callStart, failures, semaphore>>
    /\ UNCHANGED notGen

Next ==
    \/ Enter
    \/ \E i \in Tasks : Start(i)
    \/ \E i \in Tasks : Acquire(i)
    \/ \E i \in Tasks : CallReturn(i)
    \/ \E i \in Tasks : CallTimeout(i)
    \/ \E i \in Tasks : SleepDone(i)
    \/ \E i \in Tasks : ThreadEnd(i)
    \/ GatherDone
    \/ BatchTimeout
    \/ Advance

Spec == Init /\ [][Next]_vars

\* The event loop runs whatever is ready: a step that stays possible is
\* taken (the timers fire, the awaited calls end, gather resumes).
FairSpec == Spec /\ WF_vars(Next)

\* ------------------------------------------------- the request text
\* A text is the sequence of the pieces it is put together from.
StyleInstruction == <<"instruction", 1>>
PersonaInstruction == <<"instruction", 2>>
PromptPart(p) == <<"prompt_text", p>>
StylePart(k) == <<"STYLE", k>>
Space == <<"separator", 1>>
CommaSpace == <<"separator", 2>>

\* sep.join(parts)
RECURSIVE Join(_, _)
Join(sep, parts) ==
    IF Len(parts) = 0 THEN << >>
    ELSE IF Len(parts) = 1 THEN <<parts[1]>>
    ELSE <<parts[1], sep>> \o Join(sep, Tail(parts))

\* prompt_parts of generate_single_image
PromptParts(p, refs, style) ==
    (IF refs # {}
     THEN (IF "style" \in refs THEN <<StyleInstruction>> ELSE << >>)
            \o (IF "persona" \in refs THEN <<PersonaInstruction>> ELSE << >>)
     ELSE << >>)
      \o <<PromptPart(p)>>
      \o (IF style # 0 /\ "style" \notin refs THEN <<StylePart(style)>> ELSE << >>)

\* full_text = " ".join(prompt_parts)
FullText(p, refs, style) == Join(Space, PromptParts(p, refs, style))

\* full_prompt of generate_image_from_prompt
FullPrompt(p, style) ==
    IF style # 0 THEN <<PromptPart(p), CommaSpace, StylePart(style)>>
    ELSE <<PromptPart(p)>>

TextInit ==
    /\ prompt_text \in 1 .. MaxPrompts
    /\ reference_images \in SUBSET {"style", "persona"}
    /\ STYLE \in 0 .. MaxStyles
    /\ builder = "none"
    /\ full_text = << >>
    /\ GenIdle
    /\ FormatIdle
    /\ FetchIdle
    /\ PipeIdle
    /\ ToolsIdle
    /\ RunIdle
    /\ WebIdle

\* generate_single_image builds the text of its request.
BuildFullText ==
    /\ builder = "none"
    /\ builder' = "generate_all_images_parallel"
    /\ full_text' = FullText(prompt_text, reference_images, STYLE)
    /\ UNCHANGED <<prompt_text, reference_images, STYLE>>
    /\ UNCHANGED notText

\* generate_image_from_prompt builds the text of its request; it does not
\* read state['generation_reference_images'].
BuildFullPrompt ==
    /\ builder = "none"
    /\ builder' = "generate_image_from_prompt"
    /\ full_text' = FullPrompt(prompt_text, STYLE)
    /\ UNCHANGED <<prompt_text, reference_images, STYLE>>
    /\ UNCHANGED notText

TextNext ==
    \/ BuildFullText
    \/ BuildFullPrompt

SpecText == TextInit /\ [][TextNext]_vars

\* ------------------------------------------- the per-post pipeline
\* A SequentialAgent runs its sub-agents in the order of its list.
content_analysis_pipeline ==
    <<"content_analyzer_agent", "creative_director_agent">>

content_generation_pipeline ==
    <<"copywriter_agent", "image_prompt_engineer_agent", "prompt_formatter_agent">>

\* A pipeline that saves the results before the images are generated.
post_processing_pipeline_saving_first ==
    <<"post_selector_agent">> \o content_analysis_pipeline
      \o content_generation_pipeline
      \o <<"results_manager_agent", "image_generation_loop", "state_cleaner_agent">>

post_processing_pipeline ==
    <<"post_selector_agent">> \o content_analysis_pipeline
      \o content_generation_pipeline
      \o <<"image_generation_loop", "results_manager_agent", "state_cleaner_agent">>

\* Sub-agents whose tools leave the loop and the post selection alone.
PlainAgents ==
    {"content_analyzer_agent", "creative_director_agent", "copywriter_agent",
     "image_prompt_engineer_agent", "prompt_formatter_agent"}

\* max_iterations of batch_processor
max_iterations == IF BATCH_SIZE > 0 THEN BATCH_SIZE ELSE UnlimitedIterations

\* A loop that allows one pass more than max_iterations.
ContinueLoopOneMore(t, m) == t <= m

\* The loop agent goes on while times_looped < max_iterations.
ContinueLoop(t, m) == t < m

PipeInit ==
    /\ filtered_posts \in {[k \in 1 .. n |-> k] : n \in 0 .. MaxPosts}
    /\ BATCH_SIZE \in 0 .. MaxBatch
    /\ exit_at_once \in BOOLEAN
    /\ del_works \in BOOLEAN
    /\ current_post_index = 0
    /\ current_post = 0
    /\ loop = "ready"
    /\ times_looped = 0
    /\ passes = 0
    /\ should_exit = FALSE
    /\ stage = 0
    /\ running = {}
    /\ ran = << >>
    /\ select_status = "none"
    /\ image_status = "none"
    /\ exit_cause = "none"
    /\ reports = {}
    /\ GenIdle
    /\ FormatIdle
    /\ FetchIdle
    /\ TextIdle
    /\ ToolsIdle
    /\ RunIdle
    /\ WebIdle

pipeInputs == <<filtered_posts, BATCH_SIZE, exit_at_once, del_works>>

\* The loop agent starts a pass of its sub-agent, the pipeline.
BeginPass ==
    /\ loop = "ready"
    /\ ContinueLoop(times_looped, max_iterations)
    /\ loop' = "pass"
    /\ passes' = passes + 1
    /\ stage' = 1
    /\ ran' = << >>
    /\ should_exit' = FALSE
    /\ select_status' = "none"
    /\ image_status' = "none"
    /\ UNCHANGED <<pipeInputs, reports, current_post_index, current_post, times_looped,
                   running, exit_cause>>
    /\ UNCHANGED notPipe

\* The pipeline starts its next sub-agent once the one before has finished.
StageBegin ==
    /\ loop = "pass"
    /\ running = {}
    /\ stage \in 1 .. Len(post_processing_pipeline)
    /\ running' = {post_processing_pipeline[stage]}
    /\ ran' = Append(ran, post_processing_pipeline[stage])
    /\ UNCHANGED <<pipeInputs, reports, current_post_index, current_post, loop,
                   times_looped, passes, should_exit, stage, select_status,
                   image_status, exit_cause>>
    /\ UNCHANGED notPipe

\* A sub-agent has finished and the loop agent has seen its events; esc
\* tells whether one of them carried actions.escalate.  The loop agent
\* either returns on that event or notes it and lets the pass finish.
AfterStage(esc, cause) ==
    /\ running' = {}
    /\ IF esc /\ exit_at_once
       THEN /\ loop' = "done"
            /\ exit_cause' = cause
            /\ UNCHANGED <<should_exit, stage>>
       ELSE /\ should_exit' = (should_exit \/ esc)
            /\ exit_cause' = IF esc /\ exit_cause = "none" THEN cause ELSE exit_cause
            /\ stage' = stage + 1
            /\ UNCHANGED loop

\* post_selector_agent: the model calls select_current_post, or answers
\* without calling it.
select_current_post ==
    /\ running = {"post_selector_agent"}
    /\ \E called \in BOOLEAN :
         IF ~called
         THEN /\ select_status' = "not_called"
              /\ AfterStage(FALSE, "post_selector_agent")
              /\ UNCHANGED <<current_post_index, current_post>>
         ELSE IF filtered_posts = << >>
         THEN /\ select_status' = "error"
              /\ AfterStage(FALSE, "post_selector_agent")
              /\ UNCHANGED <<current_post_index, current_post>>
         ELSE IF current_post_index >= Len(filtered_posts)
         THEN /\ select_status' = "complete"
              /\ AfterStage(TRUE, "post_selector_agent")
              /\ UNCHANGED <<current_post_index, current_post>>
         ELSE /\ select_status' = "ready"
              /\ current_post' = filtered_posts[current_post_index + 1]
              /\ current_post_index' = current_post_index + 1
              /\ AfterStage(FALSE, "post_selector_agent")
    /\ UNCHANGED <<pipeInputs, reports, times_looped, passes, ran, image_status>>
    /\ UNCHANGED notPipe

\* An agent of the pipeline whose tools do not touch the loop.
RunAgent(a) ==
    /\ running = {a}
    /\ AfterStage(FALSE, a)
    /\ UNCHANGED <<pipeInputs, reports, current_post_index, current_post, times_looped,
                   passes, ran, select_status, image_status>>
    /\ UNCHANGED notPipe

\* image_generation_loop: the images are generated or not; the loop ends
\* at its own max_iterations, or earlier by a call of exit_image_loop,
\* which sets escalate.
image_generation_loop ==
    /\ running = {"image_generation_loop"}
    /\ \E exit_called \in BOOLEAN, st \in {"success", "error"} :
         /\ image_status' = st
         /\ AfterStage(exit_called, "image_generation_loop")
    /\ UNCHANGED <<pipeInputs, reports, current_post_index, current_post, times_looped,
                   passes, ran, select_status>>
    /\ UNCHANGED notPipe

\* The sections of the markdown file save_post_metadata writes.
ReportSections ==
    {"post_title", "post_id", "category", "theme", "generated", "caption",
     "hashtags", "image_texts", "creative_direction", "image_prompts",
     "original_post"}

Report(post) == [post_id |-> post, sections |-> ReportSections]

\* results_manager_agent: the model calls save_post_metadata, or answers
\* without calling it.  The tool returns an error when the state has no
\* current_post or the file cannot be written, and writes the report of
\* the current post otherwise, to a file named after the post.
save_post_metadata ==
    /\ running = {"results_manager_agent"}
    /\ \E called, written \in BOOLEAN :
         reports' = IF called /\ written /\ current_post # 0
                    THEN reports \cup {Report(current_post)}
                    ELSE reports
    /\ AfterStage(FALSE, "results_manager_agent")
    /\ UNCHANGED <<pipeInputs, current_post_index, current_post, times_looped,
                   passes, ran, select_status, image_status>>
    /\ UNCHANGED notPipe

\* state_cleaner_agent: the model calls clear_post_state, which deletes
\* the keys of the post (a "del" that raises is logged and passed over)
\* and sets escalate, or answers without calling it.
clear_post_state ==
    /\ running = {"state_cleaner_agent"}
    /\ \E called \in BOOLEAN :
         /\ current_post' = IF called /\ del_works THEN 0 ELSE current_post
         /\ AfterStage(called, "state_cleaner_agent")
    /\ UNCHANGED <<pipeInputs, reports, current_post_index, times_looped, passes, ran,
                   select_status, image_status>>
    /\ UNCHANGED notPipe

\* The last sub-agent of the pipeline has finished: the loop agent leaves
\* if an event of the pass carried escalate and counts the pass otherwise.
EndPass ==
    /\ loop = "pass"
    /\ running = {}
    /\ stage = Len(post_processing_pipeline) + 1
    /\ stage' = 0
    /\ IF should_exit
       THEN /\ loop' = "done"
            /\ UNCHANGED times_looped
       ELSE /\ loop' = "ready"
            /\ times_looped' = times_looped + 1
    /\ UNCHANGED <<pipeInputs, reports, current_post_index, current_post, passes,
                   should_exit, running, ran, select_status, image_status,
                   exit_cause>>
    /\ UNCHANGED notPipe

\* times_looped has reached max_iterations.
LoopEnd ==
    /\ loop = "ready"
    /\ ~ContinueLoop(times_looped, max_iterations)
    /\ loop' = "done"
    /\ exit_cause' = "max_iterations"
    /\ UNCHANGED <<pipeInputs, reports, current_post_index, current_post, times_looped,
                   passes, should_exit, stage, running, ran, select_status,
                   image_status>>
    /\ UNCHANGED notPipe

PipeNext ==
    \/ BeginPass
    \/ StageBegin
    \/ select_current_post
    \/ \E a \in PlainAgents : RunAgent(a)
    \/ image_generation_loop
    \/ save_post_metadata
    \/ clear_post_state
    \/ EndPass
    \/ LoopEnd

SpecPipeline == PipeInit /\ [][PipeNext]_vars

\* The event loop keeps running the agents: a step that can be taken is
\* taken.
FairSpecPipeline == SpecPipeline /\ WF_vars(PipeNext)

\* ------------------------------------------------- the post tools
\* The two tools of post_selector_tool.py, called in any order on one
\* session state, between them the agents that store their answer under
\* their output_key and the tool that counts the images.

\* What the pipeline keeps besides the three state values the tools use.
pipeRest == <<BATCH_SIZE, exit_at_once, loop, times_looped, passes, should_exit,
              stage, running, ran, select_status, image_status, exit_cause,
              reports>>

\* The keys select_current_post writes for the post it selects.
SelectKeys ==
    {"current_post", "post_content_text", "has_style_reference",
     "has_persona_reference", "is_text_mode"}

\* The keys the agents of one pass store their answer under.
OutputKeys ==
    {"post_selection", "content_analysis", "creative_brief", "copy_content",
     "image_prompts", "temp:current_image"}

\* The keys written for one post: by SELECT and by the stages after it.
ItemKeys == SelectKeys \cup OutputKeys

\* The keys clear_post_state deletes.
keys_to_clear ==
    {"current_post", "content_analysis", "creative_brief", "copy_content",
     "image_prompts"}

ToolsInit ==
    /\ filtered_posts \in {[k \in 1 .. n |-> k] : n \in 0 .. MaxPosts}
    /\ del_works \in BOOLEAN
    /\ BATCH_SIZE = 0
    /\ exit_at_once = FALSE
    /\ current_post_index = 0
    /\ current_post = 0
    /\ loop = "idle"
    /\ times_looped = 0
    /\ passes = 0
    /\ should_exit = FALSE
    /\ stage = 0
    /\ running = {}
    /\ ran = << >>
    /\ select_status = "none"
    /\ image_status = "none"
    /\ exit_cause = "none"
    /\ reports = {}
    /\ state_keys = {"filtered_posts"}
    /\ images_generated_count = 0
    /\ escalate = FALSE
    /\ returned = "none"
    /\ last_call = "none"
    /\ ncalls = 0
    /\ selected = << >>
    /\ handed_out = << >>
    /\ GenIdle
    /\ FormatIdle
    /\ FetchIdle
    /\ TextIdle
    /\ RunIdle
    /\ WebIdle

\* The counter stored for the next call.
NextIndexStuck(current_index) == current_index

NextIndex(current_index) == current_index + 1

\* tool_context.actions.escalate once all posts have been processed.
EscalateNotSet == FALSE

EscalateWhenDone == TRUE

\* select_current_post(tool_context), called as a tool.
SelectCall ==
    /\ ncalls < MaxCalls
    /\ ncalls' = ncalls + 1
    /\ last_call' = "select_current_post"
    /\ IF filtered_posts = << >>
       THEN /\ returned' = "error"
            /\ escalate' = FALSE
            /\ UNCHANGED <<current_post_index, current_post, state_keys, selected>>
       ELSE IF current_post_index >= Len(filtered_posts)
       THEN /\ returned' = "complete"
            /\ escalate' = EscalateWhenDone
            /\ UNCHANGED <<current_post_index, current_post, state_keys, selected>>
       ELSE /\ current_post' = filtered_posts[current_post_index + 1]
            /\ current_post_index' = NextIndex(current_post_index)
            /\ state_keys' = state_keys \cup {"current_post_index"} \cup SelectKeys
            /\ selected' = Append(selected, current_post')
            /\ returned' = "ready"
            /\ escalate' = FALSE
    /\ UNCHANGED <<filtered_posts, del_works, images_generated_count, handed_out,
                   pipeRest>>
    /\ UNCHANGED notTools

\* clear_post_state(tool_context), called as a tool.
ClearCall ==
    /\ ncalls < MaxCalls
    /\ ncalls' = ncalls + 1
    /\ last_call' = "clear_post_state"
    /\ state_keys' = (IF del_works THEN state_keys \ keys_to_clear ELSE state_keys)
                        \cup {"temp:images_generated_count"}
    /\ current_post' = IF del_works THEN 0 ELSE current_post
    /\ images_generated_count' = 0
    /\ escalate' = TRUE
    /\ returned' = "cleared"
    /\ handed_out' = << >>
    /\ UNCHANGED <<filtered_posts, del_works, current_post_index, selected, pipeRest>>
    /\ UNCHANGED notTools

\* An agent of the pipeline stores its answer under its output_key.
StoreOutput(key) ==
    /\ key \notin state_keys
    /\ state_keys' = state_keys \cup {key}
    /\ last_call' = "output_key"
    /\ UNCHANGED <<filtered_posts, del_works, current_post_index, current_post,
                   images_generated_count, escalate, returned, ncalls, selected,
                   handed_out, pipeRest>>
    /\ UNCHANGED notTools

\* len(image_prompts): MaxSlides prompts, or none where the key is absent.
NumPrompts == IF "image_prompts" \in state_keys THEN MaxSlides ELSE 0

\* The test that every prompt has been handed out.
AllGeneratedOffByOne(images_generated, n) == images_generated > n

AllGenerated(images_generated, n) == images_generated >= n

\* get_next_prompt_for_generation(tool_context) hands out the next prompt
\* of state['image_prompts'] and counts it, or returns 'complete'.
get_next_prompt_for_generation ==
    /\ last_call' = "get_next_prompt_for_generation"
    /\ IF AllGenerated(images_generated_count, NumPrompts)
       THEN /\ returned' = "complete"
            /\ UNCHANGED <<images_generated_count, state_keys, handed_out>>
       ELSE /\ handed_out' = Append(handed_out, images_generated_count + 1)
            /\ images_generated_count' = images_generated_count + 1
            /\ state_keys' = state_keys \cup {"temp:images_generated_count"}
            /\ returned' = "ready"
    /\ UNCHANGED <<filtered_posts, del_works, current_post_index, current_post,
                   escalate, ncalls, selected, pipeRest>>
    /\ UNCHANGED notTools

ToolsNext ==
    \/ SelectCall
    \/ ClearCall
    \/ \E key \in OutputKeys : StoreOutput(key)
    \/ get_next_prompt_for_generation

SpecTools == ToolsInit /\ [][ToolsNext]_vars

\* ------------------------------------------------ the generator job
\* main() and run_content_generator() of main.py: one run of the job, the
\* work of the agents seen as the events the runner yields.

\* The root agent for an input mode: the coordinator of orchestrator.py.
create_root_agent_for_mode(mode) == "root_coordinator"

RunInit ==
    /\ run_pc = "main"
    /\ input_mode \in {"sheet", "text"}
    /\ root_agent = "none"
    /\ event_count = 0
    /\ images_saved = 0
    /\ final_response = FALSE
    /\ result_status = "none"
    /\ exit_status = -1
    /\ GenIdle
    /\ FormatIdle
    /\ FetchIdle
    /\ TextIdle
    /\ PipeIdle
    /\ ToolsIdle
    /\ WebIdle

\* main(): Config.validate() returns or raises ValueError, which main's
\* own handler turns into exit status 1.
main_validate ==
    /\ run_pc = "main"
    /\ \E valid \in BOOLEAN :
         IF valid
         THEN run_pc' = "validated" /\ UNCHANGED exit_status
         ELSE run_pc' = "exited" /\ exit_status' = 1
    /\ UNCHANGED <<input_mode, root_agent, event_count, images_saved,
                   final_response, result_status>>
    /\ UNCHANGED notRun

\* run_content_generator() up to the first event: session service, root
\* agent, runner, session and first message.
run_start ==
    /\ run_pc = "validated"
    /\ root_agent' = create_root_agent_for_mode(input_mode)
    /\ run_pc' = "events"
    /\ UNCHANGED <<input_mode, event_count, images_saved, final_response,
                   result_status, exit_status>>
    /\ UNCHANGED notRun

\* One event of runner.run_async.  An image that was generated and saved,
\* and one that failed, both arrive as the answer of a tool: a dictionary
\* with status 'success' or 'error'.
run_event ==
    /\ run_pc = "events"
    /\ event_count < MaxEvents
    /\ event_count' = event_count + 1
    /\ \E kind \in {"text", "image_saved", "image_failed", "final"} :
         /\ images_saved' = IF kind = "image_saved"
                            THEN images_saved + 1 ELSE images_saved
         /\ final_response' = (final_response \/ kind = "final")
    /\ UNCHANGED <<run_pc, input_mode, root_agent, result_status, exit_status>>
    /\ UNCHANGED notRun

\* An exception leaves the try block: {"status": "error", ...}.
run_raises ==
    /\ run_pc \in {"validated", "events"}
    /\ result_status' = "error"
    /\ run_pc' = "returned"
    /\ UNCHANGED <<input_mode, root_agent, event_count, images_saved,
                   final_response, exit_status>>
    /\ UNCHANGED notRun

\* KeyboardInterrupt: {"status": "interrupted"}.
run_interrupted ==
    /\ run_pc \in {"validated", "events"}
    /\ result_status' = "interrupted"
    /\ run_pc' = "returned"
    /\ UNCHANGED <<input_mode, root_agent, event_count, images_saved,
                   final_response, exit_status>>
    /\ UNCHANGED notRun

\* The runner has no more events: the summary is logged and
\* {"status": "success", ...} is returned.
run_returns ==
    /\ run_pc = "events"
    /\ result_status' = "success"
    /\ run_pc' = "returned"
    /\ UNCHANGED <<input_mode, root_agent, event_count, images_saved,
                   final_response, exit_status>>
    /\ UNCHANGED notRun

\* main(): sys.exit(0) for 'success', sys.exit(1) otherwise.
main_exit ==
    /\ run_pc = "returned"
    /\ exit_status' = IF result_status = "success" THEN 0 ELSE 1
    /\ run_pc' = "exited"
    /\ UNCHANGED <<input_mode, root_agent, event_count, images_saved,
                   final_response, result_status>>
    /\ UNCHANGED notRun

RunNext ==
    \/ main_validate
    \/ run_start
    \/ run_event
    \/ run_raises
    \/ run_interrupted
    \/ run_returns
    \/ main_exit

SpecRun == RunInit /\ [][RunNext]_vars

\* ------------------------------------------------- the job database
\* JobDB of job_db.py: every thread has its own sqlite connection to the
\* same database file.  A write needs the database's write lock, which one
\* connection holds at a time; the others wait for it (timeout=30.0) and
\* then give up with an exception.  What a connection wrote is in the
\* table for the others when it commits.

RunningRow == [status |-> "running", error |-> ""]

\* The error texts a job can carry.
RestartError == "Server restarted during generation"

JobErrors == {"generation failed"}

\* SELECT COUNT(*) FROM jobs WHERE status = 'running'
RunningCount(table) == Cardinality({j \in JobIds : table[j].status = "running"})

\* The lock after BEGIN of thread t: BEGIN IMMEDIATE takes the write lock.
BeginDeferred(lock, t) == lock

BeginImmediate(lock, t) == t

\* The capacity test of create_job.
AtCapacityOffByOne(count) == count > MAX_CONCURRENT_JOBS

AtCapacity(count) == count >= MAX_CONCURRENT_JOBS

\* UPDATE jobs SET status = 'error', error = '...' WHERE status = 'running'
StaleRowAlways(row) ==
    IF row.status = "absent" THEN row
    ELSE [status |-> "error", error |-> RestartError]

StaleRow(row) ==
    IF row.status = "running"
    THEN [status |-> "error", error |-> RestartError]
    ELSE row

DbInit ==
    /\ MAX_CONCURRENT_JOBS \in 1 .. MaxLimit
    /\ jobs_table = NoJobs
    /\ db_lock = 0
    /\ db_pc = [t \in Threads |-> "idle"]
    /\ db_job = [t \in Threads |-> 0]
    /\ db_count = [t \in Threads |-> 0]
    /\ db_result = "none"
    /\ db_stale = -1
    /\ table_before = NoJobs
    /\ UiIdle
    /\ GenIdle
    /\ FormatIdle
    /\ FetchIdle
    /\ TextIdle
    /\ PipeIdle
    /\ ToolsIdle
    /\ RunIdle

\* Thread t calls create_job(job_id).
create_job_call(t, job_id) ==
    /\ db_pc[t] = "idle"
    /\ db_pc' = [db_pc EXCEPT ![t] = "begin"]
    /\ db_job' = [db_job EXCEPT ![t] = job_id]
    /\ UNCHANGED <<MAX_CONCURRENT_JOBS, jobs_table, db_lock, db_count, db_result,
                   db_stale, table_before>>
    /\ UNCHANGED notDb

\* create_job: conn.execute('BEGIN IMMEDIATE'), once no other connection
\* holds the write lock.
create_job_begin(t) ==
    /\ db_pc[t] = "begin"
    /\ db_lock = 0
    /\ db_lock' = BeginImmediate(db_lock, t)
    /\ db_pc' = [db_pc EXCEPT ![t] = "count"]
    /\ UNCHANGED <<MAX_CONCURRENT_JOBS, jobs_table, db_job, db_count, db_result,
                   db_stale, table_before>>
    /\ UNCHANGED notDb

\* create_job: the write lock did not come free in time; the exception
\* is raised again after conn.rollback().
create_job_locked(t) ==
    /\ db_pc[t] = "begin"
    /\ db_lock \notin {0, t}
    /\ db_pc' = [db_pc EXCEPT ![t] = "idle"]
    /\ db_job' = [db_job EXCEPT ![t] = 0]
    /\ db_result' = "raised"
    /\ db_stale' = -1
    /\ UNCHANGED <<MAX_CONCURRENT_JOBS, jobs_table, db_lock, db_count, table_before>>
    /\ UNCHANGED notDb

\* create_job: the count of running jobs and the capacity test; at
\* capacity conn.rollback() and return False.
create_job_check(t) ==
    /\ db_pc[t] = "count"
    /\ IF AtCapacity(RunningCount(jobs_table))
       THEN /\ db_lock' = IF db_lock = t THEN 0 ELSE db_lock
            /\ db_pc' = [db_pc EXCEPT ![t] = "idle"]
            /\ db_job' = [db_job EXCEPT ![t] = 0]
            /\ db_result' = "False"
            /\ db_stale' = -1
       ELSE /\ db_pc' = [db_pc EXCEPT ![t] = "insert"]
            /\ UNCHANGED <<db_lock, db_job, db_result, db_stale>>
    /\ UNCHANGED <<MAX_CONCURRENT_JOBS, jobs_table, db_count, table_before>>
    /\ UNCHANGED notDb

\* create_job: INSERT and conn.commit(), return True; a job_id that is in
\* the table already violates the primary key: conn.rollback() and raise.
create_job_insert(t) ==
    /\ db_pc[t] = "insert"
    /\ db_lock \in {0, t}
    /\ IF jobs_table[db_job[t]].status = "absent"
       THEN /\ jobs_table' = [jobs_table EXCEPT ![db_job[t]] = RunningRow]
            /\ db_result' = "True"
       ELSE /\ db_result' = "raised"
            /\ UNCHANGED jobs_table
    /\ db_stale' = -1
    /\ db_lock' = 0
    /\ db_pc' = [db_pc EXCEPT ![t] = "idle"]
    /\ db_job' = [db_job EXCEPT ![t] = 0]
    /\ UNCHANGED <<MAX_CONCURRENT_JOBS, db_count, table_before>>
    /\ UNCHANGED notDb

\* An UPDATE that adds the row when no row has the id.
UpdateOrInsert(table, job_id, status, error) ==
    [table EXCEPT ![job_id] = [status |-> status, error |-> error]]

\* UPDATE jobs SET status = .. WHERE id = ?: no row is changed when none
\* has the id.
UpdateWhereId(table, job_id, status, error) ==
    IF table[job_id].status = "absent"
    THEN table
    ELSE [table EXCEPT ![job_id] = [status |-> status, error |-> error]]

\* complete_job(job_id): UPDATE ... WHERE id = ? and conn.commit().
complete_job(t, job_id) ==
    /\ db_pc[t] = "idle"
    /\ db_lock = 0
    /\ jobs_table' = UpdateWhereId(jobs_table, job_id, "complete",
                                   jobs_table[job_id].error)
    /\ db_result' = "none"
    /\ db_stale' = -1
    /\ UNCHANGED <<MAX_CONCURRENT_JOBS, db_lock, db_pc, db_job, db_count,
                   table_before>>
    /\ UNCHANGED notDb

\* fail_job(job_id, error): UPDATE ... WHERE id = ? and conn.commit().
fail_job(t, job_id) ==
    /\ db_pc[t] = "idle"
    /\ db_lock = 0
    /\ \E error \in JobErrors :
         jobs_table' = UpdateWhereId(jobs_table, job_id, "error", error)
    /\ db_result' = "none"
    /\ db_stale' = -1
    /\ UNCHANGED <<MAX_CONCURRENT_JOBS, db_lock, db_pc, db_job, db_count,
                   table_before>>
    /\ UNCHANGED notDb

\* cleanup_stale_jobs: the count of running jobs; return 0 if there are
\* none.
cleanup_stale_jobs_count(t) ==
    /\ db_pc[t] = "idle"
    /\ IF RunningCount(jobs_table) > 0
       THEN /\ db_count' = [db_count EXCEPT ![t] = RunningCount(jobs_table)]
            /\ db_pc' = [db_pc EXCEPT ![t] = "update"]
            /\ UNCHANGED <<db_result, db_stale>>
       ELSE /\ db_stale' = 0
            /\ db_result' = "none"
            /\ UNCHANGED <<db_count, db_pc>>
    /\ UNCHANGED <<MAX_CONCURRENT_JOBS, jobs_table, db_lock, db_job, table_before>>
    /\ UNCHANGED notDb

\* cleanup_stale_jobs: UPDATE ... WHERE status = 'running', conn.commit()
\* and return stale_count.
cleanup_stale_jobs_update(t) ==
    /\ db_pc[t] = "update"
    /\ db_lock = 0
    /\ jobs_table' = [j \in JobIds |-> StaleRow(jobs_table[j])]
    /\ db_stale' = db_count[t]
    /\ db_result' = "none"
    /\ db_count' = [db_count EXCEPT ![t] = 0]
    /\ db_pc' = [db_pc EXCEPT ![t] = "idle"]
    /\ UNCHANGED <<MAX_CONCURRENT_JOBS, db_lock, db_job, table_before>>
    /\ UNCHANGED notDb

DbNext ==
    \E t \in Threads :
        \/ \E job_id \in JobIds : create_job_call(t, job_id)
        \/ create_job_begin(t)
        \/ create_job_locked(t)
        \/ create_job_check(t)
        \/ create_job_insert(t)
        \/ \E job_id \in JobIds : complete_job(t, job_id)
        \/ \E job_id \in JobIds : fail_job(t, job_id)
        \/ cleanup_stale_jobs_count(t)
        \/ cleanup_stale_jobs_update(t)

SpecJobDB == DbInit /\ [][DbNext]_vars

\* ---------------------------------------------------- server startup
\* What the server does with the jobs it finds when it starts, before it
\* serves a request: the module-level cleanup of app.py on jobs.json and
\* cleanup_stale_jobs on the job table.

\* The rows the table and the jobs the file can hold when the server starts.
TableRows ==
    {NoJob, RunningRow}
        \cup {[status |-> "complete", error |-> e] :
                 e \in {""} \cup JobErrors \cup {RestartError}}
        \cup {[status |-> "error", error |-> e] : e \in JobErrors \cup {RestartError}}

FileRows ==
    {NoJob, RunningRow, [status |-> "complete", error |-> ""]}
        \cup {[status |-> "error", error |-> e] : e \in JobErrors \cup {RestartError}}

\* app.py: what the startup loop makes of one job of jobs.json.
StaleJob(job) ==
    IF job.status = "running"
    THEN [status |-> "error", error |-> RestartError]
    ELSE job

StartupInit ==
    /\ MAX_CONCURRENT_JOBS \in 1 .. MaxLimit
    /\ jobs_table \in [JobIds -> TableRows]
    /\ table_before = jobs_table
    /\ db_lock = 0
    /\ db_pc = [t \in Threads |-> "idle"]
    /\ db_job = [t \in Threads |-> 0]
    /\ db_count = [t \in Threads |-> 0]
    /\ db_result = "none"
    /\ db_stale = -1
    /\ jobs_file \in [JobIds -> FileRows]
    /\ file_before = jobs_file
    /\ file_cleaned = FALSE
    /\ ui_pc = [j \in JobIds |-> "none"]
    /\ local_jobs = [j \in JobIds |-> NoJobs]
    /\ GenIdle
    /\ FormatIdle
    /\ FetchIdle
    /\ TextIdle
    /\ PipeIdle
    /\ ToolsIdle
    /\ RunIdle

\* app.py, module level: every job of jobs.json that is 'running' is
\* marked as failed and the file is written back.
cleanup_stale_file ==
    /\ ~file_cleaned
    /\ jobs_file' = [j \in JobIds |-> StaleJob(jobs_file[j])]
    /\ file_cleaned' = TRUE
    /\ UNCHANGED <<file_before, ui_pc, local_jobs>>
    /\ UNCHANGED notUi

\* The thread that starts the server.
MainThread == 1

StartupNext ==
    \/ cleanup_stale_file
    \/ (db_stale = -1 /\ cleanup_stale_jobs_count(MainThread))
    \/ cleanup_stale_jobs_update(MainThread)

SpecStartup == StartupInit /\ [][StartupNext]_vars

\* ----------------------------------------------------------- the web UI
\* The routes /generate and /generate_from_text of app.py and the
\* background thread of each job.  Flask serves every request in a thread
\* of its own; job j is the job the j-th request would create.

\* get_active_job() finds a job in what load_jobs() returns.
ActiveJob(jobs) == \E j \in JobIds : jobs[j].status = "running"

UiInit ==
    /\ jobs_file = NoJobs
    /\ file_before = NoJobs
    /\ file_cleaned = TRUE
    /\ ui_pc = [j \in JobIds |-> "none"]
    /\ local_jobs = [j \in JobIds |-> NoJobs]
    /\ DbIdle
    /\ GenIdle
    /\ FormatIdle
    /\ FetchIdle
    /\ TextIdle
    /\ PipeIdle
    /\ ToolsIdle
    /\ RunIdle

\* POST /generate: 409 if get_active_job() finds a running job.
generate(j) ==
    /\ ui_pc[j] = "none"
    /\ ui_pc' = [ui_pc EXCEPT ![j] = IF ActiveJob(jobs_file)
                                     THEN "refused" ELSE "checked"]
    /\ UNCHANGED <<jobs_file, file_before, file_cleaned, local_jobs>>
    /\ UNCHANGED notUi

\* POST /generate_from_text: 409 if get_active_job() finds a running job,
\* 400 if the form has no text.
generate_from_text(j) ==
    /\ ui_pc[j] = "none"
    /\ \E has_text \in BOOLEAN :
         ui_pc' = [ui_pc EXCEPT ![j] =
                      IF ActiveJob(jobs_file) THEN "refused"
                      ELSE IF has_text THEN "checked" ELSE "bad_request"]
    /\ UNCHANGED <<jobs_file, file_before, file_cleaned, local_jobs>>
    /\ UNCHANGED notUi

\* Both routes: jobs = load_jobs().
request_load_jobs(j) ==
    /\ ui_pc[j] = "checked"
    /\ local_jobs' = [local_jobs EXCEPT ![j] = jobs_file]
    /\ ui_pc' = [ui_pc EXCEPT ![j] = "loaded"]
    /\ UNCHANGED <<jobs_file, file_before, file_cleaned>>
    /\ UNCHANGED notUi

\* Both routes: jobs[job_id] = {"status": "running", ...}; save_jobs(jobs);
\* the job's thread is started.
request_save_jobs(j) ==
    /\ ui_pc[j] = "loaded"
    /\ jobs_file' = [local_jobs[j] EXCEPT ![j] = RunningRow]
    /\ local_jobs' = [local_jobs EXCEPT ![j] = NoJobs]
    /\ ui_pc' = [ui_pc EXCEPT ![j] = "started"]
    /\ UNCHANGED <<file_before, file_cleaned>>
    /\ UNCHANGED notUi

\* run_generator_async / run_generator_async_text_mode: jobs = load_jobs()
\* before the generator is run.
run_generator_async_load(j) ==
    /\ ui_pc[j] = "started"
    /\ local_jobs' = [local_jobs EXCEPT ![j] = jobs_file]
    /\ ui_pc' = [ui_pc EXCEPT ![j] = "generating"]
    /\ UNCHANGED <<jobs_file, file_before, file_cleaned>>
    /\ UNCHANGED notUi

\* run_generator_async / run_generator_async_text_mode: the generator has
\* ended; jobs[job_id] = {"status": ...}; save_jobs(jobs).
run_generator_async_save(j) ==
    /\ ui_pc[j] = "generating"
    /\ \E row \in {[status |-> "complete", error |-> ""]}
                    \cup {[status |-> "error", error |-> e] : e \in JobErrors} :
         jobs_file' = [local_jobs[j] EXCEPT ![j] = row]
    /\ local_jobs' = [local_jobs EXCEPT ![j] = NoJobs]
    /\ ui_pc' = [ui_pc EXCEPT ![j] = "finished"]
    /\ UNCHANGED <<file_before, file_cleaned>>
    /\ UNCHANGED notUi

UiNext ==
    \E j \in JobIds :
        \/ generate(j)
        \/ generate_from_text(j)
        \/ request_load_jobs(j)
        \/ request_save_jobs(j)
        \/ run_generator_async_load(j)
        \/ run_generator_async_save(j)

SpecWebUI == UiInit /\ [][UiNext]_vars

\* ------------------------------------------- the prompt formatter

\* The text of an image prompt: starts is 0 when it does not start with
\* "Create" and k when it starts with "Create <style k>,"; body is 1 when a
\* description follows and 0 for the empty string.
PromptText(starts, body) == [starts |-> starts, body |-> body]

\* One entry of the prompt list: a dict in the compact format (keys i, t,
\* p), a dict in the full format (slide_number, image_text, prompt), or an
\* entry that is not a dict (keys "none"). index and label are 0 for None.
PromptEntry(keys, index, label, prompt) ==
    [keys |-> keys, index |-> index, label |-> label, prompt |-> prompt]

\* The entries the prompt engineer writes: slide i with its label "TEXT i".
PromptEntries ==
    {PromptEntry(k, i, i, PromptText(c, 1)) :
        k \in {"compact", "full"}, i \in 1 .. MaxSlides, c \in 0 .. 1}
    \cup {PromptEntry("none", 0, 0, PromptText(0, 0))}

PromptValues ==
    {NoValue}
    \cup {StateValue("text", f, sh, << >>) :
            f \in BOOLEAN, sh \in {"unparsable", "object", "scalar"}}
    \cup {StateValue("text", f, "list", items) :
            f \in BOOLEAN, items \in SeqsUpTo(PromptEntries, MaxSlides)}
    \cup {StateValue("parsed", FALSE, "list", items) :
            items \in SeqsUpTo(PromptEntries, MaxSlides)}

Brief(form, shape, ref, style) ==
    [form |-> form, shape |-> shape, has_style_reference |-> ref,
     art_style |-> style]

Briefs ==
    {Brief("absent", "none", FALSE, 0), Brief("text", "unparsable", FALSE, 0),
     Brief("text", "list", FALSE, 0)}
    \cup {Brief(f, "object", ref, style) :
            f \in {"text", "parsed"}, ref \in BOOLEAN, style \in 0 .. MaxStyles}

\* "not value": the key is missing, or holds '' or an empty list.
Falsy(value) ==
    \/ value.form = "absent"
    \/ value.form = "parsed" /\ value.shape = "list" /\ value.items = << >>

\* json.loads of the text without its fence.
JsonLoads(value) == [shape |-> value.shape, items |-> value.items]

\* json.dumps: a string with no fence around it.
JsonDumps(parsed) == StateValue("text", FALSE, parsed.shape, parsed.items)

\* "image_prompts = []", replaced by the parsed text only when the state
\* holds a string.
ParsedPrompts(raw) ==
    IF raw.form = "text" THEN JsonLoads(raw)
    ELSE [shape |-> "list", items |-> << >>]

\* "creative_brief = {}", replaced by the parsed text only when the state
\* holds a string.
ParsedBrief(raw) == IF raw.form = "text" THEN raw ELSE Brief("parsed", "object", FALSE, 0)

\* prompt_data.get(key, default) for the keys i, t and p of the compact
\* format.
Get(entry, key, default) == IF entry.keys = "compact" THEN entry[key] ELSE default

\* The prompt made to start with "Create <art_style>,".
FixPrompt(prompt, art_style) == PromptText(art_style, prompt.body)

FixedEntry(entry, art_style) ==
    PromptEntry("compact", Get(entry, "index", 0), Get(entry, "label", 0),
                FixPrompt(Get(entry, "prompt", PromptText(0, 0)), art_style))

FixedPrompts(items, art_style) ==
    [k \in 1 .. Len(items) |-> FixedEntry(items[k], art_style)]

\* The loop over the parsed value raises: the value cannot be iterated, or
\* an element of it has no .get.
LoopRaises(parsed) ==
    \/ parsed.shape \in {"scalar", "object"}
    \/ \E k \in 1 .. Len(parsed.items) : parsed.items[k].keys = "none"

FormatInit ==
    /\ creative_brief \in Briefs
    /\ state_image_prompts \in PromptValues
    /\ prompts_before = state_image_prompts
    /\ format_result = "none"
    /\ FetchIdle
    /\ GenIdle
    /\ TextIdle
    /\ PipeIdle
    /\ ToolsIdle
    /\ RunIdle
    /\ WebIdle

\* format_image_prompts(tool_context), from the reads of the state to the
\* returned status.
format_image_prompts ==
    /\ prompts_before' = state_image_prompts
    /\ LET brief == ParsedBrief(creative_brief)
           image_prompts_parsed == ParsedPrompts(state_image_prompts)
       IN  IF Falsy(creative_brief) \/ Falsy(state_image_prompts)
           THEN /\ format_result' = "error"
                /\ UNCHANGED state_image_prompts
           ELSE IF brief.shape = "unparsable"
                   \/ (state_image_prompts.form = "text"
                         /\ state_image_prompts.shape = "unparsable")
           THEN /\ format_result' = "error"
                /\ UNCHANGED state_image_prompts
           ELSE IF brief.shape # "object"
           THEN /\ format_result' = "error"
                /\ UNCHANGED state_image_prompts
           ELSE IF brief.has_style_reference
           THEN /\ state_image_prompts' = JsonDumps(image_prompts_parsed)
                /\ format_result' = IF image_prompts_parsed.shape = "scalar"
                                    THEN "error" ELSE "success"
           ELSE IF brief.art_style = 0 \/ LoopRaises(image_prompts_parsed)
           THEN /\ format_result' = "error"
                /\ UNCHANGED state_image_prompts
           ELSE /\ state_image_prompts' =
                      JsonDumps([shape |-> "list",
                                 items |-> FixedPrompts(image_prompts_parsed.items,
                                                        brief.art_style)])
                /\ format_result' = "success"
    /\ UNCHANGED creative_brief
    /\ UNCHANGED notFmt

FormatNext == format_image_prompts

SpecFormat == FormatInit /\ [][FormatNext]_vars

\* ------------------------------------------------- the sheet reader

\* Config.VIRALITY_FILTER and Config.ENGAGEMENT_FILTER (the defaults).
VIRALITY_FILTER == {"VIRUS", "BEST", "GOOD"}
ENGAGEMENT_FILTER == {"BEST ER", "VIRAL ER"}

\* A row of the sheet; url tells the rows apart.
SheetRow(url, virality, engagement) ==
    [url |-> url, VIRALITY |-> virality, ENGAGEMENT |-> engagement]

\* The sheets the request may be answered from: with or without each of
\* the two columns (a value of "" where the column is missing), and up to
\* MaxPosts rows.
Sheets ==
    {[has_virality |-> hv, has_engagement |-> he, rows |-> rows] :
        hv \in BOOLEAN, he \in BOOLEAN,
        rows \in UNION {[1 .. n -> {SheetRow(0, v, e) :
                                      v \in {"VIRUS", "LOW"},
                                      e \in {"BEST ER", "LOW ER"}}] :
                        n \in 0 .. MaxPosts}}

\* The rows with their place in the sheet as url.
Numbered(rows) == [k \in 1 .. Len(rows) |-> [rows[k] EXCEPT !.url = k]]

\* The sheet filtered on one column only.
IsInFirstOnly(rows, has_column, column, filter) ==
    IF has_column /\ column = "VIRALITY"
    THEN SelectSeq(rows, LAMBDA row : row[column] \in filter)
    ELSE rows

\* "if column in df.columns: df = df[df[column].isin(filter)]"
IsIn(rows, has_column, column, filter) ==
    IF has_column
    THEN SelectSeq(rows, LAMBDA row : row[column] \in filter)
    ELSE rows

\* The rows left by the two filters, in sheet order.
QualifiedRows(s) ==
    IsIn(IsIn(Numbered(s.rows), s.has_virality, "VIRALITY", VIRALITY_FILTER),
         s.has_engagement, "ENGAGEMENT", ENGAGEMENT_FILTER)

\* to_dict('records') and the loop that adds row_index and post_id (the id
\* is made of the index and the time of day, left out here).
PostRecords(rows) ==
    [k \in 1 .. Len(rows) |->
        [url |-> rows[k].url, VIRALITY |-> rows[k].VIRALITY,
         ENGAGEMENT |-> rows[k].ENGAGEMENT, row_index |-> k - 1,
         post_id |-> k - 1]]

FetchInit ==
    /\ sheet \in Sheets
    /\ posts_state = NoPosts
    /\ posts_state_before = NoPosts
    /\ fetch_status = "none"
    /\ GenIdle
    /\ FormatIdle
    /\ TextIdle
    /\ PipeIdle
    /\ ToolsIdle
    /\ RunIdle
    /\ WebIdle

\* fetch_google_sheet_data(tool_context): the request fails or the answer
\* does not parse (ok is FALSE), or the sheet is read, filtered and one of
\* the qualified posts is picked by random.choice.
fetch_google_sheet_data ==
    /\ posts_state_before' = posts_state
    /\ \E ok \in BOOLEAN :
         /\ IF ~ok
            THEN /\ fetch_status' = "error"
                 /\ UNCHANGED posts_state
            ELSE LET posts == PostRecords(QualifiedRows(sheet))
                 IN  /\ fetch_status' = "success"
                     /\ IF posts # << >>
                        THEN \E k \in 1 .. Len(posts) :
                               posts_state' = [filtered_posts |-> <<posts[k]>>,
                                               total_posts_found |-> 1]
                        ELSE posts_state' = [filtered_posts |-> << >>,
                                             total_posts_found |-> 0]
    /\ UNCHANGED sheet
    /\ UNCHANGED notFetch

FetchNext == fetch_google_sheet_data

SpecFetch == FetchInit /\ [][FetchNext]_vars

\* ------------------------------------------------------------- claims
RECURSIVE SumOver(_, _)
SumOver(f, S) ==
    IF S = {} THEN 0
    ELSE LET x == CHOOSE y \in S : TRUE IN f[x] + SumOver(f, S \ {x})

\* generate_content calls of index i being executed: the one the task
\* awaits and the ones wait_for gave up on whose threads still run.
InFlight(i) == (IF pc[i] = "call" THEN 1 ELSE 0) + orphans[i]
TotalInFlight == SumOver([i \in Tasks |-> InFlight(i)], Tasks)

Launched == image_prompts.kind = "list" /\ N >= 1
IsSuccess(r) == IsDict(r) /\ r.status = "success"
IsError(r) == IsDict(r) /\ r.status = "error"

\* C1: while generate_all_images_parallel runs, at most
\* MAX_CONCURRENT_IMAGE_REQUESTS image-generation calls are in flight.
C1_AtMostKInFlight ==
    phase = "running" => TotalInFlight <= MAX_CONCURRENT_IMAGE_REQUESTS

\* C2: every result returned once the tasks were launched has
\* successful + failed = total.
C2_CountsAddUp ==
    (phase = "returned" /\ Launched) =>
        /\ {"total", "successful", "failed"} \subseteq DOMAIN ret
        /\ ret.successful + ret.failed = ret.total

\* C3: for N >= 1 prompts the result has exactly N per-task entries, one per
\* prompt, the failed ones included, each a result record whose index is
\* unique and names one of the N prompts (the code numbers them from 0, so
\* the index of the k-th prompt is read as k - 1).
C3_OneEntryPerPrompt ==
    (phase = "returned" /\ Launched) =>
        /\ "results" \in DOMAIN ret
        /\ Len(ret.results) = N
        /\ \A k \in 1 .. N : IsDict(ret.results[k]) /\ ret.results[k].index + 1 \in 1 .. N
        /\ \A k, m \in 1 .. N :
             k # m => ret.results[k].index # ret.results[m].index

\* C4: when the batch deadline expires with tasks unfinished, the returned
\* result keeps the successful result of every task that had completed and
\* marks exactly the unfinished tasks as failed with a timeout error.
C4_DeadlineKeepsCompleted ==
    (/\ phase = "returned"
     /\ \E i \in Tasks : pc[i] = "cancelled"
     /\ \E i \in Tasks : IsSuccess(result[i])) =>
        /\ "results" \in DOMAIN ret
        /\ \A i \in Tasks :
             /\ IsSuccess(result[i]) => ret.results[i + 1] = result[i]
             /\ pc[i] = "cancelled" => /\ IsError(ret.results[i + 1])
                                       /\ ret.results[i + 1].error = "batch_timeout"
        /\ ret.successful = Cardinality({i \in Tasks : IsSuccess(result[i])})

Active(i) == pc[i] \in {"sem", "call", "sleep"}

\* C5 as stated: IMAGE_GENERATION_TIMEOUT bounds the whole retry sequence
\* of a task, so no task is still retrying more than that long after its
\* first attempt began.
C5_TimeoutBoundsSequence ==
    \A i \in Tasks :
        (Active(i) /\ started[i] >= 1) =>
            now - firstCall[i] <= IMAGE_GENERATION_TIMEOUT

\* C5 amended: IMAGE_GENERATION_TIMEOUT bounds each awaited API call
\* separately; no single awaited call lasts longer than it.
C5_TimeoutBoundsEachAttempt ==
    \A i \in Tasks :
        pc[i] = "call" => now - callStart[i] <= IMAGE_GENERATION_TIMEOUT

\* A task that is retrying after a timed-out attempt, later than
\* IMAGE_GENERATION_TIMEOUT after its first attempt began.
C5_Witness ==
    \E i \in Tasks :
        /\ pc[i] = "call"
        /\ timeouts[i] >= 1
        /\ now - firstCall[i] > IMAGE_GENERATION_TIMEOUT
        /\ now - callStart[i] <= IMAGE_GENERATION_TIMEOUT

\* C6: a task whose attempt got no answer within the timeout and that never
\* obtained an image is recorded in the batch result as failed with a
\* timeout error, and the other tasks that completed (one of them with an
\* image) are reported with their own results.
C6_HungTaskFailsAlone ==
    \A i \in Tasks :
        (/\ phase = "returned"
         /\ timeouts[i] >= 1
         /\ lastErr[i] = "timeout"
         /\ ~IsSuccess(result[i])
         /\ \E j \in Tasks \ {i} : IsSuccess(result[j])) =>
            /\ "results" \in DOMAIN ret
            /\ ret.results[i + 1] = ErrorResult(i, "timeout")
            /\ \A j \in Tasks \ {i} : Finished(j) => ret.results[j + 1] = result[j]

\* C7: a per-attempt timeout is an ordinary failure of that attempt: the
\* step that handles it leaves the batch running, sends the task to its
\* backoff sleep when attempts remain and otherwise ends the task with an
\* error result; a task that timed out with attempts left is listed as
\* successful whenever the batch returns its per-task list (its later
\* attempt succeeded, or the list would not be complete).
C7_TimeoutIsRetried ==
    /\ [][\A i \in Tasks :
            timeouts'[i] = timeouts[i] + 1 =>
              /\ phase' = "running" /\ ret' = ret
              /\ lastErr'[i] = "timeout"
              /\ IF attempt[i] < RETRY_ATTEMPTS - 1
                 THEN /\ pc'[i] = "sleep"
                      /\ due'[i] = now + RETRY_DELAY * Pow2(attempt[i])
                      /\ result'[i] = result[i]
                 ELSE /\ pc'[i] = "done"
                      /\ result'[i] = ErrorResult(i, "timeout")]_vars
    /\ [](\A i \in Tasks :
            (/\ phase = "returned" /\ "results" \in DOMAIN ret
             /\ timeouts[i] >= 1 /\ failures[i] < RETRY_ATTEMPTS) =>
                IsSuccess(ret.results[i + 1]))

\* A returned batch in which a task timed out once and then succeeded.
C7_Witness ==
    /\ phase = "returned"
    /\ "results" \in DOMAIN ret
    /\ \E i \in Tasks :
         timeouts[i] >= 1 /\ failures[i] >= 1 /\ IsSuccess(ret.results[i + 1])

\* C8: a task starts at most RETRY_ATTEMPTS API calls; when all of them
\* have failed it ends with an error result carrying the exception of the
\* last attempt (and only then); no call is started after a success.
C8_AtMostMaxAttempts ==
    /\ [](\A i \in Tasks :
            /\ started[i] <= RETRY_ATTEMPTS
            /\ failures[i] <= started[i]
            /\ failures[i] >= RETRY_ATTEMPTS =>
                 pc[i] = "done" /\ result[i] = ErrorResult(i, lastErr[i])
            /\ IsError(result[i]) =>
                 failures[i] = RETRY_ATTEMPTS /\ started[i] = RETRY_ATTEMPTS)
    /\ [][\A i \in Tasks :
            IsSuccess(result[i]) => started'[i] = started[i] /\ result'[i] = result[i]]_vars

\* A task that failed all its attempts with two different exceptions.
C8_Witness ==
    \E i \in Tasks :
        /\ failures[i] = RETRY_ATTEMPTS
        /\ IsError(result[i])
        /\ result[i].error = "no_candidates"
        /\ timeouts[i] >= 1

\* base * (2^0 + ... + 2^(f-1))
BackoffSum(f) == RETRY_DELAY * (Pow2(f) - 1)

\* C9: a task that succeeds after f failed attempts has waited
\* RETRY_DELAY * 2^(k-1) after its k-th failure, so at least
\* RETRY_DELAY * (2^0 + ... + 2^(f-1)) seconds have passed since its first
\* attempt; a task is given one wait per failed attempt except the final
\* one of an exhausted task.
C9_BackoffElapsed ==
    \A i \in Tasks :
        /\ \A k \in 1 .. Len(slept[i]) : slept[i][k] = RETRY_DELAY * Pow2(k - 1)
        /\ IsSuccess(result[i]) =>
             /\ Len(slept[i]) = failures[i]
             /\ now - firstCall[i] >= BackoffSum(failures[i])
        /\ IsError(result[i]) => Len(slept[i]) = RETRY_ATTEMPTS - 1
        /\ pc[i] = "sleep" => due[i] - now <= slept[i][Len(slept[i])]

\* A task recorded successful on its last allowed attempt.
C9_Witness ==
    \E i \in Tasks :
        /\ IsSuccess(result[i])
        /\ failures[i] = RETRY_ATTEMPTS - 1
        /\ now - firstCall[i] >= BackoffSum(RETRY_ATTEMPTS - 1)

\* C10: for every prompt index at most one image-generation call is in
\* flight at any instant.
C10_OneCallPerIndex ==
    \A i \in Tasks : InFlight(i) <= 1

\* The task failed every one of its RETRY_ATTEMPTS attempts.
Exhausted(i) == failures[i] = RETRY_ATTEMPTS

\* C11: when exactly one prompt fails all its attempts and the others
\* succeed, the batch is not aborted: total = N, successful = N - 1,
\* failed = 1, the failed prompt's entry has an error field and every other
\* entry has an artifact path.
C11_OneFailureKeepsBatch ==
    \A i \in Tasks :
        (/\ phase = "returned"
         /\ Exhausted(i)
         /\ \A j \in Tasks \ {i} : IsSuccess(result[j])) =>
            /\ {"total", "successful", "failed", "results"} \subseteq DOMAIN ret
            /\ ret.total = N /\ ret.successful = N - 1 /\ ret.failed = 1
            /\ "error" \in DOMAIN ret.results[i + 1]
            /\ \A j \in Tasks \ {i} :
                 /\ "path" \in DOMAIN ret.results[j + 1]
                 /\ ret.results[j + 1].path # 0

\* C12: when all N prompts succeed on their first attempt the result is
\* total = N, successful = N, failed = 0 with N pairwise distinct artifact
\* paths.
C12_AllSucceedFirstAttempt ==
    (/\ phase = "returned" /\ Launched
     /\ \A i \in Tasks : IsSuccess(result[i]) /\ started[i] = 1) =>
        /\ {"total", "successful", "failed", "results"} \subseteq DOMAIN ret
        /\ ret.total = N /\ ret.successful = N /\ ret.failed = 0
        /\ \A k, m \in 1 .. N :
             k # m => ret.results[k].path # ret.results[m].path

\* C13: the status of the returned batch is "success" only if failed = 0
\* and "partial" otherwise.
C13_StatusFromFailed ==
    (phase = "returned" /\ Launched) =>
        /\ ret.status = "success" => ("failed" \in DOMAIN ret /\ ret.failed = 0)
        /\ ret.status # "success" => ret.status = "partial"

C15_PositionallyStable ==
    (phase = "returned" /\ "results" \in DOMAIN ret) =>
        /\ Len(ret.results) = N
        /\ \A k \in 1 .. N :
             /\ ret.results[k] = result[k - 1]
             /\ IsDict(ret.results[k]) => ret.results[k].index = k - 1
             /\ ~IsDict(ret.results[k]) => image_prompts.items[k] = "malformed"

\* A returned list in which the second prompt finished before the first
\* (the first needed a retry, both started at time 0).
C15_Witness ==
    /\ phase = "returned" /\ "results" \in DOMAIN ret
    /\ N >= 2
    /\ failures[0] >= 1 /\ IsSuccess(ret.results[1])
    /\ failures[1] = 0 /\ started[1] = 1 /\ IsSuccess(ret.results[2])
    /\ firstCall[0] = firstCall[1]

\* C16: a task is recorded with status success only if its image was
\* written by save_image_local, and its entry carries the path of the
\* written file (path 0 stands for the "" returned when the write failed).
C16_SuccessOnlyIfSaved ==
    \A i \in Tasks : IsSuccess(result[i]) => result[i].path # 0

Occurs(x, t) == \E k \in DOMAIN t : t[k] = x
Before(x, y, t) == \E k, m \in DOMAIN t : k < m /\ t[k] = x /\ t[m] = y

\* C17: whichever function builds the request text, for every prompt and
\* every combination of references and style suffix: with a style
\* reference the style instruction comes first and the suffix is not in
\* the text; with a persona reference the preserve-the-person instruction
\* stands before the prompt; with no reference the text is the prompt
\* followed by the suffix when there is one, the prompt alone otherwise.
C17_RequestTextBuilt ==
    builder # "none" =>
        /\ Occurs(PromptPart(prompt_text), full_text)
        /\ "style" \in reference_images =>
              /\ full_text[1] = StyleInstruction
              /\ STYLE # 0 => ~Occurs(StylePart(STYLE), full_text)
        /\ "persona" \in reference_images =>
              Before(PersonaInstruction, PromptPart(prompt_text), full_text)
        /\ reference_images = {} =>
              /\ full_text[1] = PromptPart(prompt_text)
              /\ IF STYLE # 0
                 THEN /\ full_text[Len(full_text)] = StylePart(STYLE)
                      /\ Len(full_text) = 3
                 ELSE Len(full_text) = 1


\* The stage each agent of the pipeline stands for.
StageName(a) ==
    CASE a = "post_selector_agent" -> "SELECT"
      [] a = "content_analyzer_agent" -> "ANALYZE"
      [] a = "creative_director_agent" -> "DIRECT"
      [] a = "copywriter_agent" -> "WRITE_COPY"
      [] a = "image_prompt_engineer_agent" -> "ENGINEER_PROMPTS"
      [] a = "prompt_formatter_agent" -> "FORMAT_PROMPTS"
      [] a = "image_generation_loop" -> "GENERATE_IMAGES"
      [] a = "results_manager_agent" -> "PERSIST_RESULT"
      [] a = "state_cleaner_agent" -> "CLEAR_STATE"

FixedOrder ==
    <<"SELECT", "ANALYZE", "DIRECT", "WRITE_COPY", "ENGINEER_PROMPTS",
      "FORMAT_PROMPTS", "GENERATE_IMAGES", "PERSIST_RESULT", "CLEAR_STATE">>

\* C18: in every pass of the pipeline the stages started so far are, in
\* order, the first stages of SELECT, ANALYZE, DIRECT, WRITE_COPY,
\* ENGINEER_PROMPTS, FORMAT_PROMPTS, GENERATE_IMAGES, PERSIST_RESULT,
\* CLEAR_STATE; at most one stage is running at any instant, and it is the
\* one started last, so every stage before it has finished.
C18_FixedOrderOneAtATime ==
    /\ Len(ran) <= Len(FixedOrder)
    /\ \A k \in 1 .. Len(ran) : StageName(ran[k]) = FixedOrder[k]
    /\ Cardinality(running) <= 1
    /\ \A a \in running : Len(ran) >= 1 /\ a = ran[Len(ran)]

\* A second post has gone through all nine stages.
C18_Witness ==
    /\ Len(ran) = Len(FixedOrder)
    /\ running = {}
    /\ times_looped >= 1
    /\ select_status = "ready"
    /\ current_post_index = 2

C20_OnlySelectEndsEarly ==
    (loop = "done" /\ passes < max_iterations) =>
        /\ exit_cause = "post_selector_agent"
        /\ select_status = "complete"
        /\ current_post_index >= Len(filtered_posts)

\* C21: with an empty filtered_posts list the loop makes no pass of the
\* pipeline for an item: no stage after SELECT starts in any pass.
C21_EmptyListRunsNothing ==
    filtered_posts = << >> =>
        \A k \in 1 .. Len(ran) : StageName(ran[k]) = "SELECT"

\* The pass of the pipeline for the selected post is over.
PassOver == loop = "done" \/ (loop = "pass" /\ stage > Len(post_processing_pipeline))

\* C25: when the pass for an item whose image generation failed
\* completely is over, PERSIST_RESULT has run in that pass and there is a
\* report for that item, and the report has an entry about the images (which
\* would say that there are none).
C25_FailedItemIsReported ==
    (select_status = "ready" /\ image_status = "error" /\ PassOver) =>
        /\ \E k \in 1 .. Len(ran) : StageName(ran[k]) = "PERSIST_RESULT"
        /\ \E r \in reports :
             /\ r.post_id = filtered_posts[current_post_index]
             /\ "images" \in r.sections

\* C22: every call of clear_post_state leaves no key of the processed post
\* in the state, a second call right after the first changes nothing, and
\* no call of it changes current_post_index.
C22_ClearIsIdempotent ==
    /\ [](last_call = "clear_post_state" => state_keys \cap ItemKeys = {})
    /\ [][(last_call = "clear_post_state" /\ last_call' = "clear_post_state"
              /\ ncalls' = ncalls + 1)
            => /\ state_keys' = state_keys
               /\ current_post' = current_post
               /\ images_generated_count' = images_generated_count]_vars
    /\ [][(last_call' = "clear_post_state" /\ ncalls' = ncalls + 1)
            => current_post_index' = current_post_index]_vars

\* C23: right after clear_post_state no key written for the processed post,
\* by SELECT or by a later stage, is in the state, and the image counter
\* is zero.  This is stated for the session states whose keys can be
\* deleted; on the others clear_post_state removes no key at all.
C23_NoItemKeyLeaks ==
    (last_call = "clear_post_state" /\ del_works) =>
        /\ \A key \in ItemKeys : key \notin state_keys
        /\ images_generated_count = 0

C24_ExitStatusReflectsOutput ==
    run_pc = "exited" => (exit_status = 0 => images_saved > 0)

\* Thread t is inside a call of create_job.
InCreate(t) == db_pc[t] \in {"begin", "count", "insert"}

\* The step puts one new job with status 'running' into the table and
\* changes no other row.
Inserted ==
    \E j \in JobIds :
        /\ jobs_table[j].status = "absent"
        /\ jobs_table'[j] = RunningRow
        /\ \A k \in JobIds \ {j} : jobs_table'[k] = jobs_table[k]

\* C26: under every interleaving of the calls of the threads, the number of
\* running jobs never exceeds MAX_CONCURRENT_JOBS, and between the capacity
\* check of a create_job and its insert no other call changes the table.
C26_NeverOverCapacity ==
    /\ [](RunningCount(jobs_table) <= MAX_CONCURRENT_JOBS)
    /\ [][\A t \in Threads :
             (db_pc[t] = "insert" /\ db_pc'[t] = "insert")
                 => jobs_table' = jobs_table]_vars

\* One slot is left; one create_job is between its check and its insert
\* while another create_job waits for the write lock.
C26_Witness ==
    \E t, u \in Threads :
        /\ db_pc[t] = "insert"
        /\ db_pc[u] = "begin"
        /\ RunningCount(jobs_table) = MAX_CONCURRENT_JOBS - 1

C28_OneRunningJob ==
    /\ [](Cardinality({j \in JobIds : jobs_file[j].status = "running"}) <= 1)
    /\ [][\A j \in JobIds :
             (ui_pc[j] = "none" /\ ui_pc'[j] # "none" /\ ActiveJob(jobs_file))
                 => /\ ui_pc'[j] = "refused"
                    /\ jobs_file' = jobs_file]_vars
    /\ [](\A j \in JobIds : ui_pc[j] = "refused" => jobs_file[j] = NoJob)

IsSelectCall == last_call' = "select_current_post" /\ ncalls' = ncalls + 1

\* C31: a call of select_current_post on a non-empty list whose posts have
\* all been selected sets escalate, returns 'complete' and changes no key
\* of the state: not current_post_index, not current_post, not the keys
\* written for the last post.
C31_CompleteChangesNothing ==
    [][(IsSelectCall /\ filtered_posts # << >>
            /\ current_post_index >= Len(filtered_posts))
          => /\ escalate'
             /\ returned' = "complete"
             /\ state_keys' = state_keys
             /\ current_post_index' = current_post_index
             /\ current_post' = current_post
             /\ images_generated_count' = images_generated_count
             /\ filtered_posts' = filtered_posts]_vars

\* select_current_post has just found every post of a non-empty list
\* processed, with the keys of the last post still in the state.
C31_Witness ==
    /\ filtered_posts # << >>
    /\ last_call = "select_current_post"
    /\ returned = "complete"
    /\ escalate
    /\ current_post = filtered_posts[Len(filtered_posts)]
    /\ "post_content_text" \in state_keys

C33_SlotHeldOnlyDuringCall ==
    /\ semaphore + SlotsHeld = MAX_CONCURRENT_IMAGE_REQUESTS
    /\ phase \in {"returned", "raised"}
         => semaphore = MAX_CONCURRENT_IMAGE_REQUESTS

\* The batch has finished with all slots free after one task's attempt
\* timed out, another's raised, and a third succeeded at once.
C33_Witness ==
    /\ phase = "returned"
    /\ semaphore = MAX_CONCURRENT_IMAGE_REQUESTS
    /\ \E i \in Tasks : timeouts[i] > 0 /\ pc[i] = "done"
    /\ \E i \in Tasks : lastErr[i] \in Answers /\ pc[i] = "done"
    /\ \E i \in Tasks : failures[i] = 0 /\ pc[i] = "done"

\* C34: under fair scheduling, with every call ending by its answer or by its
\* per-attempt timeout, the running batch leads to a return of
\* generate_all_images_parallel with a terminal result (success or error) for
\* every task, and no task waits for a slot for ever.
C34_EveryTaskEnds ==
    /\ (phase = "running")
         ~> (phase = "returned" /\ \A i \in Tasks : IsDict(result[i]))
    /\ \A i \in 0 .. (MaxN - 1) :
         (i \in Tasks /\ pc[i] = "sem") ~> (i \in Tasks /\ pc[i] # "sem")

\* The part of C34 that the code keeps: the function returns and no task
\* stays waiting for a slot.
C34_ReturnsAndNoStarvation ==
    /\ (phase = "running") ~> (phase = "returned")
    /\ \A i \in 0 .. (MaxN - 1) :
         (i \in Tasks /\ pc[i] = "sem") ~> (i \in Tasks /\ pc[i] # "sem")

\* C35: after a successful format_image_prompts the stored prompt list has
\* as many entries as before the call, in the same order, each with the
\* index and the label it had, whether the state held the list as a JSON
\* string or as a list.
C35_FormatKeepsTheList ==
    (format_result = "success" /\ prompts_before.shape = "list")
      => /\ Len(state_image_prompts.items) = Len(prompts_before.items)
         /\ \A k \in 1 .. Len(prompts_before.items) :
              /\ state_image_prompts.items[k].index = prompts_before.items[k].index
              /\ state_image_prompts.items[k].label = prompts_before.items[k].label

\* C36: when format_image_prompts returns an error status,
\* state['image_prompts'] is exactly what it was when the call was made.
C36_FailureLeavesPromptsAlone ==
    format_result = "error" => state_image_prompts = prompts_before

\* The background thread of job j makes its final save.
FinalSave(j) == ui_pc[j] = "generating" /\ ui_pc'[j] = "finished"

\* C37: the final save of a job puts 'complete' or 'error' in the record of
\* that job, which was 'running', and leaves the record of every other job
\* in jobs.json as it was.
C37_FinalSaveTouchesOwnRecord ==
    [][\A j \in JobIds :
          FinalSave(j)
            => /\ jobs_file'[j].status \in {"complete", "error"}
               /\ \A k \in JobIds \ {j} : jobs_file'[k] = jobs_file[k]]_vars

PassesBoth(s, row) ==
    /\ s.has_virality => row.VIRALITY \in VIRALITY_FILTER
    /\ s.has_engagement => row.ENGAGEMENT \in ENGAGEMENT_FILTER

\* C39: after a successful fetch_google_sheet_data filtered_posts holds one
\* post, made of a row that passes both filters, when the sheet has such a
\* row, and is empty when it has none; total_posts_found is the length of
\* filtered_posts; after a failed one both keys are as they were.
C39_OneQualifyingPostOrNone ==
    /\ fetch_status = "success"
         => LET qualifying == {k \in 1 .. Len(sheet.rows) :
                                  PassesBoth(sheet, sheet.rows[k])}
                held == posts_state.filtered_posts
            IN  /\ qualifying # {} => /\ Len(held) = 1
                                      /\ held[1].url \in qualifying
                /\ qualifying = {} => held = << >>
                /\ posts_state.total_posts_found = Len(held)
    /\ fetch_status = "error" => posts_state = posts_state_before

\* One of two qualifying rows is held, of a sheet that also has a row that
\* passes the VIRALITY filter only.
C39_Witness ==
    /\ fetch_status = "success"
    /\ Len(posts_state.filtered_posts) = 1
    /\ sheet.has_virality /\ sheet.has_engagement
    /\ \E k \in 1 .. Len(sheet.rows) :
         /\ sheet.rows[k].VIRALITY \in VIRALITY_FILTER
         /\ sheet.rows[k].ENGAGEMENT \notin ENGAGEMENT_FILTER
    /\ \E k \in 1 .. Len(sheet.rows) :
         /\ PassesBoth(sheet, sheet.rows[k])
         /\ posts_state.filtered_posts[1].url = k

====
